---- MODULE Spec2Model ----
(***************************************************************************)
(* SIWA (Sign In With Agent), Python SDK: the message codec                *)
(* (build_siwa_message / parse_siwa_message) and the server-side           *)
(* verification pipeline (verify_siwa) of siwa_py/siwa.py.                 *)
(*                                                                         *)
(* A Python str is a sequence of one-character strings, so that split,     *)
(* partition, startswith, strip, lower, int() and the f-string formatting  *)
(* are computed character by character as the code computes them.          *)
(***************************************************************************)
EXTENDS Integers, Sequences, FiniteSets, TLC

(***************************************************************************)
(* Bounds of the model                                                     *)
(***************************************************************************)
\* the clock read by datetime.utcnow() ranges over the hours 0..MaxHour
MaxHour == 3
\* agent ids of the codec's field sets range over 0..MaxAgentId
MaxAgentId == 11

(***************************************************************************)
(* Python str primitives                                                   *)
(***************************************************************************)
NL == "\n"

\* the value None of an Optional[str], and a present value
None == [present |-> FALSE, value |-> <<>>]
Some(s) == [present |-> TRUE, value |-> s]
\* truthiness of an Optional[str]: None and "" are falsy
Truthy(o) == o.present /\ o.value # <<>>

\* Op applied to the value of x, x being evaluated once
Eval(Op(_), x) == CHOOSE r \in {Op(v) : v \in {x}} : TRUE

RECURSIVE Rep(_, _)
Rep(s, n) == IF n = 0 THEN <<>> ELSE s \o Rep(s, n - 1)

\* s.startswith(p)
StartsWith(s, p) == Len(s) >= Len(p) /\ SubSeq(s, 1, Len(p)) = p

\* s.endswith(p)
EndsWith(s, p) == Len(s) >= Len(p) /\ SubSeq(s, Len(s) - Len(p) + 1, Len(s)) = p

\* 1-based position of the first occurrence of p in s, 0 when there is none
Find(s, p) ==
    LET hits == {i \in 1..(Len(s) - Len(p) + 1) : SubSeq(s, i, i + Len(p) - 1) = p}
    IN  IF hits = {} THEN 0 ELSE CHOOSE i \in hits : \A j \in hits : i <= j

\* p in s
Contains(s, p) == Find(s, p) # 0

\* Partition at the last occurrence of sep
PartitionLast(s, sep) ==
    LET hits == {i \in 1..(Len(s) - Len(sep) + 1) : SubSeq(s, i, i + Len(sep) - 1) = sep}
        i == CHOOSE h \in hits : \A j \in hits : j <= h
    IN  <<SubSeq(s, 1, i - 1), SubSeq(s, i + Len(sep), Len(s))>>

\* s.partition(sep), for a sep that occurs in s: <<before, after>>
Partition(s, sep) ==
    LET i == Find(s, sep)
    IN  <<SubSeq(s, 1, i - 1), SubSeq(s, i + Len(sep), Len(s))>>

\* s.split(sep) for a one-character sep: the pieces of s between the
\* positions of sep, in order
Split(s, sep) ==
    LET pos == {i \in 1..Len(s) : s[i] = sep}
        n == Cardinality(pos)
        nth(k) == CHOOSE p \in pos : Cardinality({q \in pos : q < p}) = k - 1
    IN  [k \in 1..(n + 1) |->
            SubSeq(s, IF k = 1 THEN 1 ELSE nth(k - 1) + 1,
                      IF k = n + 1 THEN Len(s) ELSE nth(k) - 1)]

\* sep.join(lines)
RECURSIVE Join(_, _)
Join(lines, sep) ==
    IF lines = <<>> THEN <<>>
    ELSE IF Len(lines) = 1 THEN lines[1]
    ELSE lines[1] \o <<sep>> \o Join(Tail(lines), sep)

Whitespace == {" ", "\n", "\t", "\r"}

\* s.strip()
RECURSIVE LStrip(_)
LStrip(s) == IF s # <<>> /\ s[1] \in Whitespace THEN LStrip(Tail(s)) ELSE s
RECURSIVE RStrip(_)
RStrip(s) ==
    IF s # <<>> /\ s[Len(s)] \in Whitespace THEN RStrip(SubSeq(s, 1, Len(s) - 1)) ELSE s
Strip(s) == RStrip(LStrip(s))

\* s.replace(old, new) for a one-character old
RECURSIVE Replace(_, _, _)
Replace(s, old, new) ==
    IF s = <<>> THEN <<>>
    ELSE (IF s[1] = old THEN new ELSE <<s[1]>>) \o Replace(Tail(s), old, new)

UpperCase == <<"A", "B", "C", "D", "E", "F", "G", "H", "I", "J", "K", "L", "M", "N", "O", "P", "Q", "R", "S", "T", "U", "V", "W", "X", "Y", "Z">>
LowerCase == <<"a", "b", "c", "d", "e", "f", "g", "h", "i", "j", "k", "l", "m", "n", "o", "p", "q", "r", "s", "t", "u", "v", "w", "x", "y", "z">>
LowerTable ==
    [c \in {UpperCase[i] : i \in 1..26} |-> LowerCase[CHOOSE i \in 1..26 : UpperCase[i] = c]]
LowerChar(c) == IF c \in DOMAIN LowerTable THEN LowerTable[c] ELSE c
\* s.lower()
Lower(s) == [i \in 1..Len(s) |-> LowerChar(s[i])]

Digits == <<"0", "1", "2", "3", "4", "5", "6", "7", "8", "9">>
IsDigit(c) == \E i \in 1..10 : Digits[i] = c
DigitVal(c) == (CHOOSE i \in 1..10 : Digits[i] = c) - 1

\* str(n) of a non-negative int, as an f-string formats it
RECURSIVE NatToStr(_)
NatToStr(n) == IF n < 10 THEN <<Digits[n + 1]>> ELSE NatToStr(n \div 10) \o <<Digits[(n % 10) + 1]>>
\* str(n) of an int
IntToStr(n) == IF n < 0 THEN <<"-">> \o NatToStr(-n) ELSE NatToStr(n)

\* the digits of an int() literal: decimal digits, single underscores between them
DigitsOk(d) ==
    /\ d # <<>>
    /\ \A i \in 1..Len(d) : IsDigit(d[i]) \/ d[i] = "_"
    /\ d[1] # "_" /\ d[Len(d)] # "_"
    /\ \A i \in 1..(Len(d) - 1) : ~(d[i] = "_" /\ d[i + 1] = "_")
RECURSIVE DigitsVal(_, _)
DigitsVal(d, acc) ==
    IF d = <<>> THEN acc
    ELSE IF d[1] = "_" THEN DigitsVal(Tail(d), acc)
    ELSE DigitsVal(Tail(d), 10 * acc + DigitVal(d[1]))
\* int(s): surrounding whitespace, an optional sign, then the digits;
\* ok = FALSE is the ValueError
ParseInt(s) ==
    LET t    == Strip(s)
        sgn  == t # <<>> /\ t[1] \in {"+", "-"}
        d    == IF sgn THEN Tail(t) ELSE t
    IN  IF DigitsOk(d)
        THEN [ok |-> TRUE, val |-> IF sgn /\ t[1] = "-" THEN 0 - DigitsVal(d, 0) ELSE DigitsVal(d, 0)]
        ELSE [ok |-> FALSE, val |-> 0]

(***************************************************************************)
(* Message codec                                                           *)
(***************************************************************************)
HeaderSuffix == <<" ", "w", "a", "n", "t", "s", " ", "y", "o", "u", " ", "t", "o", " ", "s", "i", "g", "n", " ", "i", "n", " ", "w", "i", "t", "h", " ", "y", "o", "u", "r", " ", "A", "g", "e", "n", "t", " ", "a", "c", "c", "o", "u", "n", "t", ":">>
FieldSep == <<":", " ">>
KeyURI == <<"U", "R", "I">>
KeyVersion == <<"V", "e", "r", "s", "i", "o", "n">>
KeyAgentId == <<"A", "g", "e", "n", "t", " ", "I", "D">>
KeyAgentRegistry == <<"A", "g", "e", "n", "t", " ", "R", "e", "g", "i", "s", "t", "r", "y">>
KeyChainId == <<"C", "h", "a", "i", "n", " ", "I", "D">>
KeyNonce == <<"N", "o", "n", "c", "e">>
KeyIssuedAt == <<"I", "s", "s", "u", "e", "d", " ", "A", "t">>
KeyExpirationTime == <<"E", "x", "p", "i", "r", "a", "t", "i", "o", "n", " ", "T", "i", "m", "e">>
KeyNotBefore == <<"N", "o", "t", " ", "B", "e", "f", "o", "r", "e">>
KeyRequestId == <<"R", "e", "q", "u", "e", "s", "t", " ", "I", "D">>
UriPrefix == KeyURI \o FieldSep

\* f"{key}: {value}"
FieldLine(key, value) == key \o FieldSep \o value

\* BuildLines with the blank line after the statement left out when there
\* is no statement
BuildLinesOneBlank(f) ==
    <<f.domain \o HeaderSuffix, f.address, <<>>>>
    \o (IF Truthy(f.statement) THEN <<f.statement.value, <<>>>> ELSE <<>>)
    \o << FieldLine(KeyURI, f.uri),
          FieldLine(KeyVersion, IF f.version.present THEN f.version.value ELSE <<"1">>),
          FieldLine(KeyAgentId, IntToStr(f.agent_id)),
          FieldLine(KeyAgentRegistry, f.agent_registry),
          FieldLine(KeyChainId, IntToStr(f.chain_id)),
          FieldLine(KeyNonce, f.nonce),
          FieldLine(KeyIssuedAt, f.issued_at) >>
    \o (IF Truthy(f.expiration_time)
        THEN <<FieldLine(KeyExpirationTime, f.expiration_time.value)>> ELSE <<>>)
    \o (IF Truthy(f.not_before)
        THEN <<FieldLine(KeyNotBefore, f.not_before.value)>> ELSE <<>>)
    \o (IF Truthy(f.request_id)
        THEN <<FieldLine(KeyRequestId, f.request_id.value)>> ELSE <<>>)

\* the list `lines` of build_siwa_message at its return statement
BuildLines(f) ==
    <<f.domain \o HeaderSuffix, f.address, <<>>>>
    \o (IF Truthy(f.statement) THEN <<f.statement.value>> ELSE <<>>)
    \o << <<>>,
          FieldLine(KeyURI, f.uri),
          FieldLine(KeyVersion, IF f.version.present THEN f.version.value ELSE <<"1">>),
          FieldLine(KeyAgentId, IntToStr(f.agent_id)),
          FieldLine(KeyAgentRegistry, f.agent_registry),
          FieldLine(KeyChainId, IntToStr(f.chain_id)),
          FieldLine(KeyNonce, f.nonce),
          FieldLine(KeyIssuedAt, f.issued_at) >>
    \o (IF Truthy(f.expiration_time)
        THEN <<FieldLine(KeyExpirationTime, f.expiration_time.value)>> ELSE <<>>)
    \o (IF Truthy(f.not_before)
        THEN <<FieldLine(KeyNotBefore, f.not_before.value)>> ELSE <<>>)
    \o (IF Truthy(f.request_id)
        THEN <<FieldLine(KeyRequestId, f.request_id.value)>> ELSE <<>>)

build_siwa_message(f) == Join(BuildLines(f), NL)

\* field_map is the list of its assignments, oldest first; a later
\* assignment to a key overwrites an earlier one
MapHas(field_map, key) == \E i \in 1..Len(field_map) : field_map[i][1] = key
MapLast(field_map, key) ==
    field_map[CHOOSE i \in 1..Len(field_map) :
                /\ field_map[i][1] = key
                /\ \A j \in 1..Len(field_map) : field_map[j][1] = key => j <= i][2]
\* field_map.get(key, default)
MapGet(field_map, key, default) ==
    IF MapHas(field_map, key) THEN MapLast(field_map, key) ELSE default
\* field_map.get(key): None when the key is missing
MapGetOpt(field_map, key) ==
    IF MapHas(field_map, key) THEN Some(MapLast(field_map, key)) ELSE None

\* "\n".join(stmt_lines).strip() or None
StatementOf(stmt_lines) ==
    LET s == Strip(Join(stmt_lines, NL))
    IN  IF s = <<>> THEN None ELSE Some(s)

\* one iteration of the loop `for i in range(2, len(lines))`; i is the
\* 0-based Python index, st the loop's local variables
ParseStep(line, i, st) ==
    IF i = 2 /\ line = <<>>
    THEN [st EXCEPT !.in_statement = TRUE]
    ELSE IF st.in_statement
    THEN IF line = <<>> \/ StartsWith(line, UriPrefix)
         THEN [st EXCEPT !.in_statement = FALSE,
                         !.statement = StatementOf(st.stmt_lines),
                         !.field_map = IF StartsWith(line, UriPrefix)
                                       THEN Append(@, Partition(line, FieldSep))
                                       ELSE @]
         ELSE [st EXCEPT !.stmt_lines = Append(@, line)]
    ELSE IF Contains(line, FieldSep)
    THEN [st EXCEPT !.field_map = Append(@, Partition(line, FieldSep))]
    ELSE st

RECURSIVE ParseLoop(_, _, _)
ParseLoop(lines, i, st) ==
    IF i >= Len(lines) THEN st
    ELSE Eval(LAMBDA s : ParseLoop(lines, i + 1, s), ParseStep(lines[i + 1], i, st))

ParseError(kind, text) == [ok |-> FALSE, error |-> kind, text |-> text]

\* the SIWAMessageFields(...) expression returning from parse_siwa_message,
\* for the loop's final locals st; int() may raise ValueError
ParsedFields(domain, address, st) ==
    LET agent_id == ParseInt(MapGet(st.field_map, KeyAgentId, <<"0">>))
        chain_id == ParseInt(MapGet(st.field_map, KeyChainId, <<"0">>))
    IN  IF ~agent_id.ok \/ ~chain_id.ok
        THEN ParseError("ValueError", "invalid literal for int() with base 10")
        ELSE [ok |-> TRUE,
              fields |-> [domain |-> domain,
                          address |-> address,
                          statement |-> st.statement,
                          uri |-> MapGet(st.field_map, KeyURI, <<>>),
                          version |-> MapGet(st.field_map, KeyVersion, <<"1">>),
                          agent_id |-> agent_id.val,
                          agent_registry |-> MapGet(st.field_map, KeyAgentRegistry, <<>>),
                          chain_id |-> chain_id.val,
                          nonce |-> MapGet(st.field_map, KeyNonce, <<>>),
                          issued_at |-> MapGet(st.field_map, KeyIssuedAt, <<>>),
                          expiration_time |-> MapGetOpt(st.field_map, KeyExpirationTime),
                          not_before |-> MapGetOpt(st.field_map, KeyNotBefore),
                          request_id |-> MapGetOpt(st.field_map, KeyRequestId)]]

\* ParseLines with a header pattern that is not anchored at the end
ParseLinesUnanchored(lines) ==
    LET at == Find(lines[1], HeaderSuffix)
        domain_match == at > 1
        domain == SubSeq(lines[1], 1, at - 1)
        address == lines[2]
    IN  IF ~domain_match
        THEN ParseError("ValueError", "Invalid SIWA message: missing domain line")
        ELSE IF Len(lines) < 2
        THEN ParseError("IndexError", "list index out of range")
        ELSE IF address = <<>> \/ ~StartsWith(address, <<"0", "x">>) \/ Len(address) # 42
        THEN ParseError("ValueError", "Invalid SIWA message: missing or malformed address")
        ELSE Eval(LAMBDA st : ParsedFields(domain, address, st),
                  ParseLoop(lines, 2, [in_statement |-> FALSE, statement |-> None,
                                       stmt_lines |-> <<>>, field_map |-> <<>>]))

\* parse_siwa_message on the lines of the message
ParseLines(lines) ==
    LET domain_match == EndsWith(lines[1], HeaderSuffix) /\ Len(lines[1]) > Len(HeaderSuffix)
        domain == SubSeq(lines[1], 1, Len(lines[1]) - Len(HeaderSuffix))
        address == lines[2]
    IN  IF ~domain_match
        THEN ParseError("ValueError", "Invalid SIWA message: missing domain line")
        ELSE IF Len(lines) < 2
        THEN ParseError("IndexError", "list index out of range")
        ELSE IF address = <<>> \/ ~StartsWith(address, <<"0", "x">>) \/ Len(address) # 42
        THEN ParseError("ValueError", "Invalid SIWA message: missing or malformed address")
        ELSE Eval(LAMBDA st : ParsedFields(domain, address, st),
                  ParseLoop(lines, 2, [in_statement |-> FALSE, statement |-> None,
                                       stmt_lines |-> <<>>, field_map |-> <<>>]))

\* parse_siwa_message: ok = FALSE is the exception the call raises
parse_siwa_message(message) == Eval(LAMBDA lines : ParseLines(lines), Split(message, NL))

(***************************************************************************)
(* External collaborators of verify_siwa                                   *)
(***************************************************************************)
\* accounts: 0x-prefixed, 42 characters; AddrA is written in mixed case,
\* as a checksummed address is
AddrA == <<"0", "x">> \o Rep(<<"A", "1">>, 20)
AddrB == <<"0", "x">> \o Rep(<<"b", "2">>, 20)
\* what recovery yields for a signature that was made over another text
AddrUnrelated == <<"0", "x">> \o Rep(<<"E", "5">>, 20)
RegistryContract == <<"0", "x">> \o Rep(<<"c", "3">>, 20)
RegistryOverride == <<"0", "x">> \o Rep(<<"D", "4">>, 20)
Accounts == {AddrA, AddrB}

\* an EIP-191 signature binds its signer to the signed text
Sign(signer, text) == [malformed |-> FALSE, signer |-> signer, text |-> text]
MalformedSignature == [malformed |-> TRUE, signer |-> <<>>, text |-> <<>>]

\* Account.recover_message(encode_defunct(text=message), signature=signature):
\* raises for a malformed signature, yields the signer for the signed text
\* and an unrelated address for any other text
RecoverMessage(message, signature) ==
    IF signature.malformed THEN [ok |-> FALSE, address |-> <<>>]
    ELSE IF signature.text = message THEN [ok |-> TRUE, address |-> signature.signer]
    ELSE [ok |-> TRUE, address |-> AddrUnrelated]

\* RFC 3339 timestamps of 2024-01-01, on the hour: hh is the wall-clock hour,
\* suffix the UTC offset as written ("Z", "+01:00", "-01:00", or none)
DatePrefix == <<"2", "0", "2", "4", "-", "0", "1", "-", "0", "1", "T">>
MinSec == <<":", "0", "0", ":", "0", "0">>
TwoDigits(n) == <<Digits[(n \div 10) + 1], Digits[(n % 10) + 1]>>
Timestamp(hh, suffix) == DatePrefix \o TwoDigits(hh) \o MinSec \o suffix

\* datetime.fromisoformat(s) on such timestamps: the wall-clock hour and the
\* offset (aware = FALSE when none is written); ok = FALSE is the ValueError
FromIsoFormat(s) ==
    LET hh   == SubSeq(s, 12, 13)
        rest == SubSeq(s, 20, Len(s))
        shape == /\ Len(s) >= 19
                 /\ SubSeq(s, 1, 11) = DatePrefix
                 /\ IsDigit(hh[1]) /\ IsDigit(hh[2])
                 /\ 10 * DigitVal(hh[1]) + DigitVal(hh[2]) <= 23
                 /\ SubSeq(s, 14, 19) = MinSec
        offOk == /\ Len(rest) = 6
                 /\ rest[1] \in {"+", "-"}
                 /\ IsDigit(rest[2]) /\ IsDigit(rest[3])
                 /\ SubSeq(rest, 4, 6) = <<":", "0", "0">>
        offAbs == 10 * DigitVal(rest[2]) + DigitVal(rest[3])
    IN  IF shape /\ rest = <<>>
        THEN [ok |-> TRUE, hour |-> 10 * DigitVal(hh[1]) + DigitVal(hh[2]),
              aware |-> FALSE, offset |-> 0]
        ELSE IF shape /\ offOk
        THEN [ok |-> TRUE, hour |-> 10 * DigitVal(hh[1]) + DigitVal(hh[2]),
              aware |-> TRUE, offset |-> IF rest[1] = "-" THEN 0 - offAbs ELSE offAbs]
        ELSE [ok |-> FALSE, hour |-> 0, aware |-> FALSE, offset |-> 0]

\* datetime.fromisoformat(value.replace("Z", "+00:00"))
ParseTimestamp(value) == FromIsoFormat(Replace(value, "Z", <<"+", "0", "0", ":", "0", "0">>))
\* dt.replace(tzinfo=None): the wall-clock reading, the offset dropped
NaiveOf(dt) == dt.hour

HexChars == {"0", "1", "2", "3", "4", "5", "6", "7", "8", "9",
             "a", "b", "c", "d", "e", "f", "A", "B", "C", "D", "E", "F"}
\* Web3.to_checksum_address(value) accepts 0x followed by 40 hex digits
\* and raises otherwise
IsHexAddress(value) ==
    /\ Len(value) = 42
    /\ StartsWith(value, <<"0", "x">>)
    /\ \A i \in 3..42 : value[i] \in HexChars

(***************************************************************************)
(* Requests presented to verify_siwa                                       *)
(***************************************************************************)
DomainA == <<"a", ".", "i", "o">>
DomainB == <<"b", ".", "i", "o">>
Domains == {DomainA, DomainB}
Nonce1 == <<"n", "1">>
Nonce2 == <<"n", "2">>
Nonces == {Nonce1, Nonce2}
\* the hour written in the timestamps of the requests
MidHour == MaxHour - 1

RegistryGood == <<"e", "i", "p", "1", "5", "5", ":", "1", ":">> \o RegistryContract
RegistryTwoParts == <<"e", "i", "p", "1", "5", "5", ":", "1">>
RegistryWrongNamespace == <<"s", "o", "l", "a", "n", "a", ":", "1", ":">> \o RegistryContract
RegistryBadContract == <<"e", "i", "p", "1", "5", "5", ":", "1", ":", "0", "x", "Z", "Z">>
Registries == {RegistryGood, RegistryTwoParts, RegistryWrongNamespace, RegistryBadContract}

ExpirationChoices ==
    {None, Some(Timestamp(MidHour, <<"Z">>)), Some(Timestamp(MidHour, <<"+", "0", "1", ":", "0", "0">>)),
     Some(<<"t", "o", "m", "o", "r", "r", "o", "w">>)}
NotBeforeChoices ==
    {None, Some(Timestamp(MidHour, <<"Z">>)), Some(Timestamp(MidHour, <<"-", "0", "1", ":", "0", "0">>))}

\* the field sets agents sign
VerifyFieldSets ==
    [domain : Domains,
     address : {AddrA, Lower(AddrA)},
     statement : {None},
     uri : {<<"u">>},
     version : {None},
     agent_id : {7},
     agent_registry : Registries,
     chain_id : {1},
     nonce : Nonces,
     issued_at : {Timestamp(0, <<"Z">>)},
     expiration_time : ExpirationChoices,
     not_before : NotBeforeChoices,
     request_id : {None}]

OtherDomain(d) == IF d = DomainA THEN DomainB ELSE DomainA

\* messages that are not SIWA messages
WellFormedLines ==
    BuildLines(CHOOSE f \in VerifyFieldSets :
                 /\ f.domain = DomainA /\ f.address = AddrA /\ f.nonce = Nonce1
                 /\ f.agent_registry = RegistryGood
                 /\ f.expiration_time = None /\ f.not_before = None)
MalformedMessages ==
    {<<>>,
     <<"h", "e", "l", "l", "o">>,
     WellFormedLines[1],
     Join([WellFormedLines EXCEPT ![2] = <<"0", "x", "1", "2", "3", "4">>], NL),
     Join([WellFormedLines EXCEPT ![2] = <<"n", "o", "t", "-", "a", "n", "-", "a", "d", "d", "r", "e", "s", "s">>], NL),
     Join([WellFormedLines EXCEPT ![7] = FieldLine(KeyAgentId, <<"a", "b", "c">>)], NL),
     Join([WellFormedLines EXCEPT ![9] = FieldLine(KeyChainId, <<"0", "x", "1">>)], NL)}

\* (message, signature) pairs: a message signed by either account, a message
\* whose domain was altered after AddrA signed it, a malformed signature,
\* and the malformed messages
Requests ==
    {[message |-> build_siwa_message(f), signature |-> Sign(s, build_siwa_message(f))] :
        f \in VerifyFieldSets, s \in Accounts}
    \cup {[message |-> build_siwa_message(f),
           signature |-> Sign(AddrA, build_siwa_message([f EXCEPT !.domain = OtherDomain(@)]))] :
        f \in VerifyFieldSets}
    \cup {[message |-> build_siwa_message(f), signature |-> MalformedSignature] :
        f \in VerifyFieldSets}
    \cup {[message |-> m, signature |-> Sign(AddrA, m)] : m \in MalformedMessages}

ExpectedDomain == DomainA

(***************************************************************************)
(* verify_siwa                                                             *)
(***************************************************************************)
Calls == {"c1", "c2"}

VARIABLES
    pc,       \* pc[c]: the statement of verify_siwa call c is at
    req,      \* req[c]: the arguments of call c
    fields,   \* fields[c]: local `fields`, the parsed message
    loc,      \* loc[c]: locals recovered, nonce_result, nonce_ok, now, owner, code
    result,   \* result[c]: the SIWAVerificationResult returned
    outcome,  \* outcome[c]: "pending", "returned", or "raised"
    caught,   \* caught[c]: the exception the outer except clause caught
    log,      \* log[c]: the calls made to the external collaborators, in order
    stages,   \* stages[c]: the stages executed, in order
    store,    \* the nonces the nonce validator still accepts
    codec,    \* a build_siwa_message / parse_siwa_message round trip
    shaper,   \* a call of build_siwa_response: its argument and what comes back
    signing   \* a call of sign_siwa_message: its arguments, locals and outcome

pipeline == <<pc, req, fields, loc, result, outcome, caught, log, stages, store>>
\* the state of the other entry points of the module
others == <<codec, shaper, signing>>
vars == <<pipeline, others>>

NoFields ==
    [domain |-> <<>>, address |-> <<>>, statement |-> None, uri |-> <<>>,
     version |-> <<>>, agent_id |-> 0, agent_registry |-> <<>>, chain_id |-> 0,
     nonce |-> <<>>, issued_at |-> <<>>, expiration_time |-> None,
     not_before |-> None, request_id |-> None]
NoRequest ==
    [message |-> <<>>, signature |-> MalformedSignature, expected_domain |-> <<>>,
     registry_address |-> None]
NoLocals ==
    [recovered |-> <<>>, nonce_kind |-> "none", nonce_value |-> "none",
     nonce_ok |-> FALSE, now |-> 0 - 1, owner |-> <<>>, code |-> "none"]
NoResult == [valid |-> FALSE]
NoException == [kind |-> "", text |-> ""]
NoCodec == [pc |-> "off", fields |-> NoFields, message |-> <<>>, parsed |-> [ok |-> FALSE]]
NoShaper == [pc |-> "off", result |-> NoResult, out |-> [ok |-> FALSE]]
NoSigning ==
    [pc |-> "off", fields |-> NoFields, address |-> None, signer |-> <<>>,
     signs |-> TRUE, signer_address |-> <<>>, message |-> <<>>, calls |-> <<>>,
     out |-> [ok |-> FALSE]]
Exception(kind, text) == [kind |-> kind, text |-> text]

Init ==
    /\ pc = [c \in Calls |-> "idle"]
    /\ req = [c \in Calls |-> NoRequest]
    /\ fields = [c \in Calls |-> NoFields]
    /\ loc = [c \in Calls |-> NoLocals]
    /\ result = [c \in Calls |-> NoResult]
    /\ outcome = [c \in Calls |-> "pending"]
    /\ caught = [c \in Calls |-> NoException]
    /\ log = [c \in Calls |-> <<>>]
    /\ stages = [c \in Calls |-> <<>>]
    /\ store \in {Nonces, {Nonce1}}
    /\ codec = NoCodec
    /\ shaper = NoShaper
    /\ signing = NoSigning

\* fail() reporting a lapsed ownership with the code AGENT_NOT_ACTIVE
failAgentNotActive(f, code, error) ==
    [valid |-> FALSE,
     address |-> f.address,
     agent_id |-> f.agent_id,
     agent_registry |-> f.agent_registry,
     chain_id |-> f.chain_id,
     verified |-> "onchain",
     code |-> IF code = "NOT_OWNER" THEN "AGENT_NOT_ACTIVE" ELSE code,
     error |-> error]

\* the helper fail() nested in verify_siwa
fail(f, code, error) ==
    [valid |-> FALSE,
     address |-> f.address,
     agent_id |-> f.agent_id,
     agent_registry |-> f.agent_registry,
     chain_id |-> f.chain_id,
     verified |-> "onchain",
     code |-> code,
     error |-> error]

\* BoundaryHandler with a clause that catches ValueError only
BoundaryHandlerValueErrorOnly(e) ==
    IF e.kind = "ValueError"
    THEN [outcome |-> "returned",
          result |-> [valid |-> FALSE, address |-> <<>>, agent_id |-> 0,
                      agent_registry |-> <<>>, chain_id |-> 0, verified |-> "offline",
                      code |-> "VERIFICATION_FAILED", error |-> e.text]]
    ELSE [outcome |-> "raised", result |-> [valid |-> FALSE]]

\* BoundaryHandler reporting verified as fail() does
BoundaryHandlerOnchain(e) ==
    [outcome |-> "returned",
     result |-> [valid |-> FALSE, address |-> <<>>, agent_id |-> 0,
                 agent_registry |-> <<>>, chain_id |-> 0, verified |-> "onchain",
                 code |-> "VERIFICATION_FAILED", error |-> e.text]]

\* the clause `except Exception as e` closing verify_siwa
BoundaryHandler(e) ==
    [outcome |-> "returned",
     result |-> [valid |-> FALSE,
                 address |-> <<>>,
                 agent_id |-> 0,
                 agent_registry |-> <<>>,
                 chain_id |-> 0,
                 verified |-> "offline",
                 code |-> "VERIFICATION_FAILED",
                 error |-> e.text]]

\* call c returns res
Return(c, res) ==
    /\ pc' = [pc EXCEPT ![c] = "done"]
    /\ result' = [result EXCEPT ![c] = res]
    /\ outcome' = [outcome EXCEPT ![c] = "returned"]
    /\ UNCHANGED caught

\* an exception e escapes the body of the try block of call c
Raise(c, e) ==
    /\ pc' = [pc EXCEPT ![c] = "done"]
    /\ result' = [result EXCEPT ![c] = BoundaryHandler(e).result]
    /\ outcome' = [outcome EXCEPT ![c] = BoundaryHandler(e).outcome]
    /\ caught' = [caught EXCEPT ![c] = e]

\* call c goes on to the statement at label
Goto(c, label) ==
    /\ pc' = [pc EXCEPT ![c] = label]
    /\ UNCHANGED <<result, outcome, caught>>

Logged(c, fn, arg, id) == [log EXCEPT ![c] = Append(@, [fn |-> fn, arg |-> arg, id |-> id])]
Staged(c, stage) == [stages EXCEPT ![c] = Append(@, stage)]

\* the registry_address argument: left out, a contract address, or the
\* empty string (an unset configuration value passed on as it is)
RegistryAddresses == {None, Some(RegistryOverride), Some(<<>>)}

\* the host calls verify_siwa(message, signature, expected_domain,
\* nonce_validator, w3, registry_address)
VerifyCall(c) ==
    /\ pc[c] = "idle"
    /\ \E r \in Requests, ra \in RegistryAddresses :
         req' = [req EXCEPT ![c] = [message |-> r.message,
                                    signature |-> r.signature,
                                    expected_domain |-> ExpectedDomain,
                                    registry_address |-> ra]]
    /\ Goto(c, "parse")
    /\ UNCHANGED <<fields, loc, log, stages, store, others>>

\* 1. fields = parse_siwa_message(message)
Parse(c) ==
    /\ pc[c] = "parse"
    /\ stages' = Staged(c, "parse")
    /\ \E p \in {parse_siwa_message(req[c].message)} :
           IF p.ok
           THEN /\ fields' = [fields EXCEPT ![c] = p.fields]
                /\ Goto(c, "recover")
           ELSE /\ Raise(c, Exception(p.error, p.text))
                /\ UNCHANGED fields
    /\ UNCHANGED <<req, loc, log, store, others>>

\* RecoverSignature without the try block around the recovery
RecoverSignatureUncaught(c) ==
    /\ pc[c] = "recover"
    /\ stages' = Staged(c, "recover")
    /\ log' = Logged(c, "recover_message", <<>>, 0)
    /\ \E r \in {RecoverMessage(req[c].message, req[c].signature)} :
           IF r.ok
           THEN /\ loc' = [loc EXCEPT ![c].recovered = r.address]
                /\ Goto(c, "address")
           ELSE /\ Raise(c, Exception("BadSignature", "Invalid signature"))
                /\ UNCHANGED loc
    /\ UNCHANGED <<req, fields, store, others>>

\* 2. recovered = Account.recover_message(message_hash, signature=signature)
RecoverSignature(c) ==
    /\ pc[c] = "recover"
    /\ stages' = Staged(c, "recover")
    /\ log' = Logged(c, "recover_message", <<>>, 0)
    /\ \E r \in {RecoverMessage(req[c].message, req[c].signature)} :
           IF r.ok
           THEN /\ loc' = [loc EXCEPT ![c].recovered = r.address]
                /\ Goto(c, "address")
           ELSE /\ Return(c, fail(fields[c], "INVALID_SIGNATURE", "Invalid signature"))
                /\ UNCHANGED loc
    /\ UNCHANGED <<req, fields, store, others>>

\* 3. recovered.lower() != fields["address"].lower()
AddressMatch(c) ==
    /\ pc[c] = "address"
    /\ stages' = Staged(c, "address")
    /\ IF Lower(loc[c].recovered) # Lower(fields[c].address)
       THEN Return(c, fail(fields[c], "INVALID_SIGNATURE", "Signature recovered other address"))
       ELSE Goto(c, "domain")
    /\ UNCHANGED <<req, fields, loc, log, store, others>>

\* DomainBinding with the comparison left out
DomainBindingSkipped(c) ==
    /\ pc[c] = "domain"
    /\ stages' = Staged(c, "domain")
    /\ Goto(c, "nonce")
    /\ UNCHANGED <<req, fields, loc, log, store, others>>

\* 4. fields["domain"] != expected_domain
DomainBinding(c) ==
    /\ pc[c] = "domain"
    /\ stages' = Staged(c, "domain")
    /\ IF fields[c].domain # req[c].expected_domain
       THEN Return(c, fail(fields[c], "DOMAIN_MISMATCH", "Domain mismatch"))
       ELSE Goto(c, "nonce")
    /\ UNCHANGED <<req, fields, loc, log, store, others>>

\* what a nonce validator may hand back when called: a plain bool, a
\* coroutine object (async def), or another awaitable: a Future that holds
\* its outcome already, or a Task (asyncio.ensure_future) that has yet to run
ValidatorKinds == {"bool", "coroutine", "future", "task"}

\* asyncio.iscoroutine(nonce_result)
IsCoroutine(kind) == kind = "coroutine"

\* truth value of nonce_ok in `if not nonce_ok`: a bool counts as itself,
\* any other object (a Future has neither __bool__ nor __len__) as true
TruthOf(kind, value) == IF kind = "bool" THEN value ELSE TRUE

\* the boolean a validator decided, as loc records it ("none" before it did)
BoolStr(value) == IF value THEN "True" ELSE "False"

\* the statement `if not nonce_ok: return fail(...)` and what follows it
NonceDecision(c, nonce_ok) ==
    IF ~nonce_ok
    THEN Return(c, fail(fields[c], "INVALID_NONCE", "Invalid or consumed nonce"))
    ELSE Goto(c, "time")

\* 5. nonce_result = nonce_validator(fields["nonce"]); a consume-once
\* validator accepts a nonce of the store and removes it.  A synchronous
\* validator and one handing back a Future decide within the call, the body
\* of an async def validator runs when it is awaited, and a Task runs when
\* the event loop next gets control.
NonceValidate(c) ==
    /\ pc[c] = "nonce"
    /\ stages' = Staged(c, "nonce")
    /\ log' = Logged(c, "nonce_validator", fields[c].nonce, 0)
    /\ \/ \E kind \in ValidatorKinds :
            LET value == fields[c].nonce \in store
            IN  IF IsCoroutine(kind)
                THEN /\ loc' = [loc EXCEPT ![c].nonce_kind = kind]
                     /\ Goto(c, "await_nonce")
                     /\ UNCHANGED store
                ELSE IF kind = "task"
                THEN /\ loc' = [loc EXCEPT ![c].nonce_kind = kind,
                                           ![c].nonce_ok = TruthOf(kind, value)]
                     /\ NonceDecision(c, TruthOf(kind, value))
                     /\ UNCHANGED store
                ELSE /\ loc' = [loc EXCEPT ![c].nonce_kind = kind,
                                           ![c].nonce_value = BoolStr(value),
                                           ![c].nonce_ok = TruthOf(kind, value)]
                     /\ store' = store \ {fields[c].nonce}
                     /\ NonceDecision(c, TruthOf(kind, value))
       \/ /\ Raise(c, Exception("RuntimeError", "nonce store unavailable"))
          /\ UNCHANGED <<loc, store>>
    /\ UNCHANGED <<req, fields, others>>

\* nonce_ok = await nonce_result: the coroutine runs to completion
NonceAwait(c) ==
    /\ pc[c] = "await_nonce"
    /\ \/ LET value == fields[c].nonce \in store
          IN  /\ loc' = [loc EXCEPT ![c].nonce_value = BoolStr(value),
                                    ![c].nonce_ok = TruthOf("bool", value)]
              /\ store' = store \ {fields[c].nonce}
              /\ NonceDecision(c, TruthOf("bool", value))
       \/ /\ Raise(c, Exception("RuntimeError", "nonce store unavailable"))
          /\ UNCHANGED <<loc, store>>
    /\ UNCHANGED <<req, fields, log, stages, others>>

\* the Task a validator handed back runs: verify_siwa does not await it and
\* has no other await after the nonce stage, so the event loop runs the
\* Task once the call is over
NonceTaskRun(c) ==
    /\ pc[c] = "done"
    /\ loc[c].nonce_kind = "task"
    /\ loc[c].nonce_value = "none"
    /\ loc' = [loc EXCEPT ![c].nonce_value = BoolStr(fields[c].nonce \in store)]
    /\ store' = store \ {fields[c].nonce}
    /\ UNCHANGED <<pc, req, fields, result, outcome, caught, log, stages, others>>

\* the two comparisons of stage 6 against the clock reading now:
\* "raise" when a timestamp does not parse
TimeWindowOutcome(f, now) ==
    LET exp == ParseTimestamp(f.expiration_time.value)
        nbf == ParseTimestamp(f.not_before.value)
    IN  IF Truthy(f.expiration_time) /\ ~exp.ok THEN "raise"
        ELSE IF Truthy(f.expiration_time) /\ now > NaiveOf(exp) THEN "MESSAGE_EXPIRED"
        ELSE IF Truthy(f.not_before) /\ ~nbf.ok THEN "raise"
        ELSE IF Truthy(f.not_before) /\ now < NaiveOf(nbf) THEN "MESSAGE_NOT_YET_VALID"
        ELSE "pass"

\* 6. now = datetime.utcnow() and the time window
TimeWindow(c) ==
    /\ pc[c] = "time"
    /\ stages' = Staged(c, "time")
    /\ \E now \in 0..MaxHour :
         /\ loc' = [loc EXCEPT ![c].now = now]
         /\ LET o == TimeWindowOutcome(fields[c], now)
            IN  CASE o = "raise" ->
                       Raise(c, Exception("ValueError", "Invalid isoformat string"))
                  [] o = "MESSAGE_EXPIRED" ->
                       Return(c, fail(fields[c], "MESSAGE_EXPIRED", "Message expired"))
                  [] o = "MESSAGE_NOT_YET_VALID" ->
                       Return(c, fail(fields[c], "MESSAGE_NOT_YET_VALID",
                                      "Message not yet valid (not_before)"))
                  [] OTHER -> Goto(c, "registry")
    /\ UNCHANGED <<req, fields, log, store, others>>

\* registry_parts = fields["agent_registry"].split(":")
RegistryParts(f) == Split(f.agent_registry, ":")
\* RegistryFormatOk counting the parts only
RegistryFormatOkAnyNamespace(f) == Len(RegistryParts(f)) = 3

\* len(registry_parts) == 3 and registry_parts[0] == "eip155"
RegistryFormatOk(f) ==
    Len(RegistryParts(f)) = 3 /\ RegistryParts(f)[1] = <<"e", "i", "p", "1", "5", "5">>

\* 7. the format of agent_registry
RegistryFormat(c) ==
    /\ pc[c] = "registry"
    /\ stages' = Staged(c, "registry")
    /\ IF ~RegistryFormatOk(fields[c])
       THEN Return(c, fail(fields[c], "INVALID_REGISTRY_FORMAT", "Invalid agent_registry format"))
       ELSE Goto(c, "ownership")
    /\ UNCHANGED <<req, fields, loc, log, store, others>>

\* reg_address = registry_address or registry_parts[2]
RegAddress(c) ==
    IF Truthy(req[c].registry_address)
    THEN req[c].registry_address.value
    ELSE RegistryParts(fields[c])[3]

\* contract.functions.ownerOf(agent_id).call(): an owner, or an error
OwnerOfOutcomes ==
    {[ok |-> TRUE, owner |-> a] : a \in {AddrA, Lower(AddrA), AddrB}}
    \cup {[ok |-> FALSE, owner |-> <<>>]}

\* Ownership comparing owner and signer letter for letter
OwnershipCaseSensitive(c) ==
    /\ pc[c] = "ownership"
    /\ stages' = Staged(c, "ownership")
    /\ IF ~IsHexAddress(RegAddress(c))
       THEN /\ Return(c, fail(fields[c], "NOT_REGISTERED", "Agent is not registered"))
            /\ UNCHANGED <<loc, log>>
       ELSE /\ log' = Logged(c, "ownerOf", RegAddress(c), fields[c].agent_id)
            /\ \E o \in OwnerOfOutcomes :
                 IF ~o.ok
                 THEN /\ Return(c, fail(fields[c], "NOT_REGISTERED", "Agent is not registered"))
                      /\ UNCHANGED loc
                 ELSE /\ loc' = [loc EXCEPT ![c].owner = o.owner]
                      /\ IF o.owner # loc[c].recovered
                         THEN Return(c, fail(fields[c], "NOT_OWNER",
                                             "Signer is not the owner of this agent NFT"))
                         ELSE Goto(c, "signer_type")
    /\ UNCHANGED <<req, fields, store, others>>

\* the ownerOf call inside its try block and the comparison after it
Ownership(c) ==
    /\ pc[c] = "ownership"
    /\ stages' = Staged(c, "ownership")
    /\ IF ~IsHexAddress(RegAddress(c))
       THEN /\ Return(c, fail(fields[c], "NOT_REGISTERED", "Agent is not registered"))
            /\ UNCHANGED <<loc, log>>
       ELSE /\ log' = Logged(c, "ownerOf", RegAddress(c), fields[c].agent_id)
            /\ \E o \in OwnerOfOutcomes :
                 IF ~o.ok
                 THEN /\ Return(c, fail(fields[c], "NOT_REGISTERED", "Agent is not registered"))
                      /\ UNCHANGED loc
                 ELSE /\ loc' = [loc EXCEPT ![c].owner = o.owner]
                      /\ IF Lower(o.owner) # Lower(loc[c].recovered)
                         THEN Return(c, fail(fields[c], "NOT_OWNER",
                                             "Signer is not the owner of this agent NFT"))
                         ELSE Goto(c, "signer_type")
    /\ UNCHANGED <<req, fields, store, others>>

\* w3.eth.get_code(address): deployed code, no code, or an error
GetCodeOutcomes == {"code", "empty", "error"}

\* signer-type detection and the successful return
SignerType(c) ==
    /\ pc[c] = "signer_type"
    /\ stages' = Staged(c, "signer_type")
    /\ log' = Logged(c, "get_code", fields[c].address, 0)
    /\ \E code \in GetCodeOutcomes :
         /\ loc' = [loc EXCEPT ![c].code = code]
         /\ IF code = "error"
            THEN Raise(c, Exception("ConnectionError", "node unreachable"))
            ELSE Return(c, [valid |-> TRUE,
                            address |-> loc[c].recovered,
                            agent_id |-> fields[c].agent_id,
                            agent_registry |-> fields[c].agent_registry,
                            chain_id |-> fields[c].chain_id,
                            verified |-> "onchain",
                            signer_type |-> IF code = "code" THEN "sca" ELSE "eoa"])
    /\ UNCHANGED <<req, fields, store, others>>

\* the calls of the single-call specification
MainCalls == {"c1"}

Next ==
    \E c \in MainCalls :
        \/ VerifyCall(c)
        \/ Parse(c)
        \/ RecoverSignature(c)
        \/ AddressMatch(c)
        \/ DomainBinding(c)
        \/ NonceValidate(c)
        \/ NonceAwait(c)
        \/ NonceTaskRun(c)
        \/ TimeWindow(c)
        \/ RegistryFormat(c)
        \/ Ownership(c)
        \/ SignerType(c)

Spec == Init /\ [][Next]_vars

(***************************************************************************)
(* Round trips through the codec                                           *)
(***************************************************************************)
\* the statements of the field sets have 1..MaxStatementLines lines
MaxStatementLines == 2
StatementLineChoices ==
    {<<"h", "i">>, <<" ", "h", "i", " ">>, <<"U", "R", "I", ":", " ", "x">>, <<"R", "e", "q", "u", "e", "s", "t", " ", "I", "D", ":", " ", "r">>, <<"N", "o", "n", "c", "e", ":", " ", "n", "9">>,
     <<"E", "x", "p", "i", "r", "a", "t", "i", "o", "n", " ", "T", "i", "m", "e", ":", " ", "2", "0", "2", "4", "-", "0", "1", "-", "0", "1", "T", "0", "0", ":", "0", "0", ":", "0", "0", "Z">>, <<>>}
Statements ==
    {Join(ls, NL) : ls \in UNION {[1..k -> StatementLineChoices] : k \in 1..MaxStatementLines}}

CodecFieldSets ==
    [domain : {DomainA},
     address : {AddrA},
     statement : {None} \cup {Some(s) : s \in Statements},
     uri : {<<"u", ":", " ", "v">>},
     version : {None, Some(<<"2">>)},
     agent_id : {0, MaxAgentId},
     agent_registry : {RegistryGood},
     chain_id : {1},
     nonce : {Nonce1},
     issued_at : {Timestamp(0, <<"Z">>)},
     expiration_time : {None, Some(Timestamp(MidHour, <<"Z">>))},
     not_before : {None, Some(Timestamp(0, <<"+", "0", "1", ":", "0", "0">>))},
     request_id : {None, Some(<<"r", "1">>)}]

CodecInit ==
    /\ pc = [c \in Calls |-> "idle"]
    /\ req = [c \in Calls |-> NoRequest]
    /\ fields = [c \in Calls |-> NoFields]
    /\ loc = [c \in Calls |-> NoLocals]
    /\ result = [c \in Calls |-> NoResult]
    /\ outcome = [c \in Calls |-> "pending"]
    /\ caught = [c \in Calls |-> NoException]
    /\ log = [c \in Calls |-> <<>>]
    /\ stages = [c \in Calls |-> <<>>]
    /\ store = Nonces
    /\ \E f \in CodecFieldSets :
         codec = [pc |-> "fields", fields |-> f, message |-> <<>>, parsed |-> [ok |-> FALSE]]
    /\ shaper = NoShaper
    /\ signing = NoSigning

\* message = build_siwa_message(original)
CodecBuild ==
    /\ codec.pc = "fields"
    /\ codec' = [codec EXCEPT !.pc = "built", !.message = build_siwa_message(codec.fields)]
    /\ UNCHANGED <<pipeline, shaper, signing>>

\* parsed = parse_siwa_message(message)
CodecParse ==
    /\ codec.pc = "built"
    /\ codec' = [codec EXCEPT !.pc = "parsed", !.parsed = parse_siwa_message(codec.message)]
    /\ UNCHANGED <<pipeline, shaper, signing>>

CodecNext == CodecBuild \/ CodecParse

SpecCodec == CodecInit /\ [][CodecNext]_vars

(***************************************************************************)
(* Properties                                                              *)
(***************************************************************************)
Done(c) == pc[c] = "done"
Returned(c) == pc[c] = "done" /\ outcome[c] = "returned"
Failed(c) == Returned(c) /\ ~result[c].valid
Succeeded(c) == Returned(c) /\ result[c].valid
\* parse_siwa_message accepted the message of call c: Parse assigns fields
\* then, and no parsed field set has an empty address
Parsed(c) == fields[c] # NoFields
Called(c, fn) == \E i \in 1..Len(log[c]) : log[c][i].fn = fn
Ran(c, stage) == \E i \in 1..Len(stages[c]) : stages[c][i] = stage
RecoveryOf(c) == RecoverMessage(req[c].message, req[c].signature)
\* the signature of call c is by the address the message names
CorrectlySigned(c) ==
    /\ Parsed(c)
    /\ RecoveryOf(c).ok
    /\ Lower(RecoveryOf(c).address) = Lower(fields[c].address)

\* the result of the outer except clause
OfflineFailure(r) ==
    /\ ~r.valid /\ r.code = "VERIFICATION_FAILED" /\ r.verified = "offline"
    /\ r.address = <<>> /\ r.agent_id = 0 /\ r.agent_registry = <<>> /\ r.chain_id = 0

\* the UTC instant a timestamp denotes, in hours: its wall-clock reading less
\* its offset
InstantOf(dt) == dt.hour - dt.offset

\* the instants the time bounds of a field set denote, against the clock
TimestampsParse(f) ==
    /\ Truthy(f.expiration_time) => ParseTimestamp(f.expiration_time.value).ok
    /\ Truthy(f.not_before) => ParseTimestamp(f.not_before.value).ok
ExpiredAt(f, now) ==
    /\ Truthy(f.expiration_time)
    /\ ParseTimestamp(f.expiration_time.value).ok
    /\ now > InstantOf(ParseTimestamp(f.expiration_time.value))
NotYetValidAt(f, now) ==
    /\ Truthy(f.not_before)
    /\ ParseTimestamp(f.not_before.value).ok
    /\ now < InstantOf(ParseTimestamp(f.not_before.value))

\* ---- C1 ----
\* the statements C1 speaks of: absent or empty, or without a blank line
RoundTripStatement(f) ==
    \/ ~Truthy(f.statement)
    \/ \A i \in 1..Len(Split(f.statement.value, NL)) : Split(f.statement.value, NL)[i] # <<>>
\* the statement a round trip is to give back: trimmed, absent when empty
TrimmedStatement(f) ==
    IF ~Truthy(f.statement) \/ Strip(f.statement.value) = <<>>
    THEN None ELSE Some(Strip(f.statement.value))
FieldsReproduced(f, p) ==
    /\ p.domain = f.domain
    /\ p.address = f.address
    /\ p.uri = f.uri
    /\ f.version.present => p.version = f.version.value
    /\ p.agent_id = f.agent_id
    /\ p.agent_registry = f.agent_registry
    /\ p.chain_id = f.chain_id
    /\ p.nonce = f.nonce
    /\ p.issued_at = f.issued_at
    /\ Truthy(f.expiration_time) => p.expiration_time = f.expiration_time
    /\ Truthy(f.not_before) => p.not_before = f.not_before
    /\ Truthy(f.request_id) => p.request_id = f.request_id
    /\ p.statement = TrimmedStatement(f)

\* C1: parse_siwa_message(build_siwa_message(f)) reproduces every field of a
\* field set f whose statement has no blank line, the statement trimmed.
C1_RoundTrip ==
    (codec.pc = "parsed" /\ RoundTripStatement(codec.fields))
        => (codec.parsed.ok /\ FieldsReproduced(codec.fields, codec.parsed.fields))

\* ---- C2 ----
WrongDomain(c) ==
    /\ Parsed(c)
    /\ fields[c].domain # req[c].expected_domain
    /\ CorrectlySigned(c)

\* C2: a correctly signed message for another domain is answered with
\* DOMAIN_MISMATCH, and no step of its call invokes the nonce validator or
\* changes the nonce store.
C2_DomainBeforeNonce ==
    [][\A c \in Calls :
          (pc'[c] # pc[c] /\ WrongDomain(c)')
            => /\ store' = store
               /\ ~Called(c, "nonce_validator")'
               /\ Done(c)' => (Failed(c)' /\ result'[c].code = "DOMAIN_MISMATCH")]_vars

\* a call for another domain whose nonce is already consumed has returned
C2_Witness ==
    \E c \in Calls :
        /\ Done(c) /\ WrongDomain(c)
        /\ fields[c].nonce \notin store
        /\ result[c].code = "DOMAIN_MISMATCH"

\* ---- C3 ----
\* C3: no call of verify_siwa raises; a call in which an unexpected
\* exception occurred returns the offline VERIFICATION_FAILED result.
C3_NeverRaises ==
    \A c \in Calls :
        /\ outcome[c] # "raised"
        /\ Done(c) => outcome[c] = "returned"
        /\ (Done(c) /\ caught[c] # NoException) => OfflineFailure(result[c])

\* the contract-code lookup raised and the call returned all the same
C3_Witness ==
    \E c \in Calls :
        /\ Returned(c) /\ caught[c].kind = "ConnectionError"
        /\ Called(c, "get_code")
        /\ OfflineFailure(result[c])

\* ---- C4 ----
StageOrder ==
    <<"parse", "recover", "address", "domain", "nonce", "time", "registry",
      "ownership", "signer_type">>

\* whether the request of call c passes a stage it went through, judged on
\* the inputs and on what the collaborators answered
StagePasses(c, stage) ==
    CASE stage = "parse" -> Parsed(c)
      [] stage = "recover" -> RecoveryOf(c).ok
      [] stage = "address" -> Lower(RecoveryOf(c).address) = Lower(fields[c].address)
      [] stage = "domain" -> fields[c].domain = req[c].expected_domain
      [] stage = "nonce" -> loc[c].nonce_value = "True"
      [] stage = "time" -> /\ TimestampsParse(fields[c])
                           /\ ~ExpiredAt(fields[c], loc[c].now)
                           /\ ~NotYetValidAt(fields[c], loc[c].now)
      [] stage = "registry" -> RegistryFormatOk(fields[c])
      [] stage = "ownership" -> /\ loc[c].owner # <<>>
                                /\ Lower(loc[c].owner) = Lower(RecoveryOf(c).address)
      [] stage = "signer_type" -> loc[c].code # "error"

\* the code a stage gives the request of call c when it fails there
StageCode(c, stage) ==
    CASE stage = "parse" -> "VERIFICATION_FAILED"
      [] stage = "recover" -> "INVALID_SIGNATURE"
      [] stage = "address" -> "INVALID_SIGNATURE"
      [] stage = "domain" -> "DOMAIN_MISMATCH"
      [] stage = "nonce" ->
            IF loc[c].nonce_value = "False" THEN "INVALID_NONCE" ELSE "VERIFICATION_FAILED"
      [] stage = "time" ->
            IF Truthy(fields[c].expiration_time)
               /\ ~ParseTimestamp(fields[c].expiration_time.value).ok
            THEN "VERIFICATION_FAILED"
            ELSE IF ExpiredAt(fields[c], loc[c].now) THEN "MESSAGE_EXPIRED"
            ELSE IF ~TimestampsParse(fields[c]) THEN "VERIFICATION_FAILED"
            ELSE "MESSAGE_NOT_YET_VALID"
      [] stage = "registry" -> "INVALID_REGISTRY_FORMAT"
      [] stage = "ownership" -> IF loc[c].owner = <<>> THEN "NOT_REGISTERED" ELSE "NOT_OWNER"
      [] stage = "signer_type" -> "VERIFICATION_FAILED"

\* C4: the stages of a failed call are an initial part of the fixed order,
\* every stage before the last one was passed, and the code is that of the
\* last one, which the request fails.
C4_FirstFailure ==
    \A c \in Calls :
        Failed(c) =>
            /\ stages[c] # <<>>
            /\ stages[c] = SubSeq(StageOrder, 1, Len(stages[c]))
            /\ \A j \in 1..(Len(stages[c]) - 1) : StagePasses(c, StageOrder[j])
            /\ ~StagePasses(c, StageOrder[Len(stages[c])])
            /\ result[c].code = StageCode(c, StageOrder[Len(stages[c])])

\* ---- C5 ----
\* what a successful call c is to have established
ChecksPassed(c) ==
    /\ CorrectlySigned(c)
    /\ loc[c].recovered = RecoveryOf(c).address
    /\ fields[c].domain = req[c].expected_domain
    /\ \E i \in 1..Len(log[c]) :
         log[c][i].fn = "nonce_validator" /\ log[c][i].arg = fields[c].nonce
    /\ loc[c].nonce_value = "True"
    /\ TimestampsParse(fields[c])
    /\ ~ExpiredAt(fields[c], loc[c].now)
    /\ ~NotYetValidAt(fields[c], loc[c].now)
    /\ RegistryFormatOk(fields[c])
    /\ Called(c, "ownerOf")
    /\ Lower(loc[c].owner) = Lower(loc[c].recovered)
    /\ result[c].verified = "onchain"
    /\ result[c].address = loc[c].recovered
    /\ result[c].agent_id = fields[c].agent_id
    /\ result[c].agent_registry = fields[c].agent_registry
    /\ result[c].chain_id = fields[c].chain_id

\* C5: a call returns valid=true only when signer, domain, nonce, time
\* window, registry form and owner all check out, and the result carries
\* verified="onchain", the recovered address and the parsed identifiers.
C5_SuccessImpliesChecks == \A c \in Calls : Succeeded(c) => ChecksPassed(c)

\* ---- C6 ----
OfflineCodes ==
    {"INVALID_SIGNATURE", "DOMAIN_MISMATCH", "INVALID_NONCE", "MESSAGE_EXPIRED",
     "MESSAGE_NOT_YET_VALID", "INVALID_REGISTRY_FORMAT"}

\* C6: a failure of a stage before any chain call has verified="offline",
\* and verified="onchain" appears only after the ownership resolver was
\* called.
C6_VerifiedTellsChainReached ==
    \A c \in Calls :
        Returned(c) =>
            /\ (~result[c].valid /\ result[c].code \in OfflineCodes)
                  => result[c].verified = "offline"
            /\ result[c].verified = "onchain" => Called(c, "ownerOf")

\* ---- C7 ----
\* C7: a call whose message parse_siwa_message rejects returns the offline
\* VERIFICATION_FAILED result with empty fields, and calls no collaborator.
C7_ParseFailureIsOffline ==
    \A c \in Calls :
        (Done(c) /\ ~Parsed(c)) =>
            /\ Returned(c)
            /\ OfflineFailure(result[c])
            /\ log[c] = <<>>
            /\ stages[c] = <<"parse">>

\* a message with a non-numeric Agent ID was presented and rejected
C7_Witness ==
    \E c \in Calls :
        /\ Done(c) /\ ~Parsed(c)
        /\ Contains(req[c].message, FieldLine(KeyAgentId, <<"a", "b", "c">>))
        /\ OfflineFailure(result[c])

\* ---- C8 ----
SignatureMismatch(c) ==
    /\ Parsed(c)
    /\ \/ ~RecoveryOf(c).ok
       \/ Lower(RecoveryOf(c).address) # Lower(fields[c].address)

\* C8: a parseable message whose signature does not recover, or recovers
\* to another address than the message names, is answered with
\* INVALID_SIGNATURE before the domain and nonce stages; only the recovery
\* is called.
C8_SignatureBinding ==
    \A c \in Calls :
        (Done(c) /\ SignatureMismatch(c)) =>
            /\ Failed(c)
            /\ result[c].code = "INVALID_SIGNATURE"
            /\ \A i \in 1..Len(log[c]) : log[c][i].fn = "recover_message"
            /\ ~Ran(c, "domain") /\ ~Ran(c, "nonce")

\* a message altered after it was signed was presented and rejected
C8_Witness ==
    \E c \in Calls :
        /\ Done(c) /\ Parsed(c)
        /\ ~req[c].signature.malformed
        /\ req[c].signature.text # req[c].message
        /\ req[c].signature.signer = fields[c].address
        /\ result[c].code = "INVALID_SIGNATURE"

\* ---- C9 ----
\* C9: whatever a validator hands back (a bool, a coroutine, another
\* awaitable), an outcome of false ends the call with INVALID_NONCE at the
\* nonce stage.
C9_DeferredOutcomeAwaited ==
    \A c \in Calls :
        (Done(c) /\ loc[c].nonce_value = "False") =>
            /\ Failed(c)
            /\ result[c].code = "INVALID_NONCE"
            /\ stages[c][Len(stages[c])] = "nonce"

\* ---- C10 ----
\* C10: at stage 6 a request whose expiration_time lies before the clock
\* reading gets MESSAGE_EXPIRED, otherwise one whose not_before lies after
\* it gets MESSAGE_NOT_YET_VALID, otherwise the stage passes; an instant
\* equal to a bound passes.
C10_TimeWindow ==
    \A c \in Calls :
        (Done(c) /\ Ran(c, "time") /\ TimestampsParse(fields[c])) =>
            IF ExpiredAt(fields[c], loc[c].now)
            THEN Failed(c) /\ result[c].code = "MESSAGE_EXPIRED"
            ELSE IF NotYetValidAt(fields[c], loc[c].now)
            THEN Failed(c) /\ result[c].code = "MESSAGE_NOT_YET_VALID"
            ELSE Ran(c, "registry")

\* ---- C11 ----
\* a time bound rewritten as the same instant in UTC
UtcForm(o) ==
    IF Truthy(o) /\ ParseTimestamp(o.value).ok
    THEN Some(Timestamp(InstantOf(ParseTimestamp(o.value)), <<"Z">>))
    ELSE o
UtcFields(f) ==
    [f EXCEPT !.expiration_time = UtcForm(@), !.not_before = UtcForm(@)]
\* what the time-window stage of call c decided
TimeDecision(c) ==
    IF Failed(c) /\ result[c].code \in {"MESSAGE_EXPIRED", "MESSAGE_NOT_YET_VALID"}
    THEN result[c].code
    ELSE "pass"

\* C11: the time-window decision for bounds written with any UTC offset is
\* the decision for the same instants written in UTC.
C11_UtcNormalization ==
    \A c \in Calls :
        (Ran(c, "time") /\ TimestampsParse(fields[c])) =>
            TimeDecision(c) = TimeWindowOutcome(UtcFields(fields[c]), loc[c].now)

\* ---- C12 ----
\* eip155:<chainId>:<contractAddress>: the eip155 namespace and two colons
Colons(s) == Cardinality({i \in 1..Len(s) : s[i] = ":"})
Eip155Form(s) == StartsWith(s, <<"e", "i", "p", "1", "5", "5", ":">>) /\ Colons(s) = 2

\* C12: at stage 7 a request is answered with INVALID_REGISTRY_FORMAT, no
\* chain call made, exactly when agent_registry is not of the form
\* eip155:<chainId>:<contractAddress>; otherwise it goes on to the
\* ownership stage.
C12_RegistryFormat ==
    \A c \in Calls :
        Ran(c, "registry") =>
            IF Eip155Form(fields[c].agent_registry)
            THEN /\ pc[c] = "ownership" \/ Ran(c, "ownership")
                 /\ Failed(c) => result[c].code # "INVALID_REGISTRY_FORMAT"
            ELSE /\ Failed(c)
                 /\ result[c].code = "INVALID_REGISTRY_FORMAT"
                 /\ ~Called(c, "ownerOf") /\ ~Called(c, "get_code")

\* a three-part registry of another namespace was rejected at stage 7
C12_Witness ==
    \E c \in Calls :
        /\ Ran(c, "registry") /\ Failed(c)
        /\ fields[c].agent_registry = RegistryWrongNamespace
        /\ result[c].code = "INVALID_REGISTRY_FORMAT"

\* ---- C13 ----
\* C13: at stage 8 an error while resolving the owner (a malformed contract
\* address, a failing ownerOf call) gives NOT_REGISTERED, an owner other
\* than the recovered signer, letter case aside, gives NOT_OWNER, and only
\* an owner equal to the signer lets the call go on.
C13_OwnershipOutcome ==
    \A c \in Calls :
        Ran(c, "ownership") =>
            IF loc[c].owner = <<>>
            THEN Failed(c) /\ result[c].code = "NOT_REGISTERED"
            ELSE IF Lower(loc[c].owner) # Lower(loc[c].recovered)
            THEN Failed(c) /\ result[c].code = "NOT_OWNER"
            ELSE /\ pc[c] = "signer_type" \/ Ran(c, "signer_type")
                 /\ Failed(c) => result[c].code \notin {"NOT_REGISTERED", "NOT_OWNER"}

\* the owner was resolved in another letter case than the signer was
\* recovered in, and the call went on
C13_Witness ==
    \E c \in Calls :
        /\ Ran(c, "ownership")
        /\ loc[c].owner # <<>>
        /\ loc[c].owner # loc[c].recovered
        /\ Lower(loc[c].owner) = Lower(loc[c].recovered)
        /\ pc[c] = "signer_type"

\* a registry with a malformed contract address was answered NOT_REGISTERED
C13_MalformedContract ==
    \E c \in Calls :
        /\ Ran(c, "ownership") /\ Failed(c)
        /\ ~IsHexAddress(RegAddress(c))
        /\ result[c].code = "NOT_REGISTERED"

\* ---- C14 ----
\* C14: once the ownership check has passed the call returns valid=true
\* whatever the contract-code lookup does: "sca" for code, "eoa" for none.
C14_SignerTypeNeverFails ==
    \A c \in Calls :
        (Done(c) /\ Ran(c, "signer_type")) =>
            /\ Succeeded(c)
            /\ result[c].signer_type = IF loc[c].code = "code" THEN "sca" ELSE "eoa"

(***************************************************************************)
(* build_siwa_response                                                     *)
(***************************************************************************)
\* result.get(key): the value, or None when the result has no such key;
\* zero is a value of the key's type standing in the None
Get(r, key, zero) ==
    IF key \in DOMAIN r
    THEN [present |-> TRUE, value |-> r[key]]
    ELSE [present |-> FALSE, value |-> zero]

\* skill_ref
SkillRef == [name |-> "siwa", install |-> "pip install siwa", url |-> "https://siwa.id/skill.md"]

\* the steps of the register action
RegisterSteps ==
    <<"Install the SDK: pip install siwa",
      "Create a wallet: from siwa import create_wallet; wallet = create_wallet()",
      "Fund the wallet with ETH on the target chain for gas fees",
      "Build ERC-8004 registration metadata (JSON with name, description, services, active: true)",
      "Register onchain: call register(agent_uri) on the Identity Registry contract",
      "Retry SIWA sign-in">>

\* base, with signer_type only when the result has a non-empty one
ResponseBase(r) ==
    LET base == [address |-> Get(r, "address", <<>>),
                 agent_id |-> Get(r, "agent_id", 0),
                 agent_registry |-> Get(r, "agent_registry", <<>>),
                 chain_id |-> Get(r, "chain_id", 0),
                 verified |-> Get(r, "verified", "")]
    IN  IF Get(r, "signer_type", "").present /\ r.signer_type # ""
        THEN base @@ ("signer_type" :> r.signer_type)
        ELSE base

\* registry_parts = result.get("agent_registry", "").split(":")
ResponseRegistryParts(r) ==
    Split(IF "agent_registry" \in DOMAIN r THEN r.agent_registry ELSE <<>>, ":")

\* ActionRegistryAddress taking the third part whenever there is one
ActionRegistryAddressAnyThird(r) ==
    IF Len(ResponseRegistryParts(r)) >= 3 THEN Some(ResponseRegistryParts(r)[3]) ELSE None

\* registry_address = registry_parts[2] if len(registry_parts) == 3 else None
ActionRegistryAddress(r) ==
    IF Len(ResponseRegistryParts(r)) = 3 THEN Some(ResponseRegistryParts(r)[3]) ELSE None

\* chain_id = result.get("chain_id") or
\*            (int(registry_parts[1]) if len(registry_parts) >= 2 else None);
\* ok = FALSE is the ValueError of int()
ActionChainId(r) ==
    IF Get(r, "chain_id", 0).present /\ r.chain_id # 0
    THEN [ok |-> TRUE, chain_id |-> [present |-> TRUE, value |-> r.chain_id]]
    ELSE IF Len(ResponseRegistryParts(r)) >= 2
    THEN LET n == ParseInt(ResponseRegistryParts(r)[2])
         IN  IF n.ok
             THEN [ok |-> TRUE, chain_id |-> [present |-> TRUE, value |-> n.val]]
             ELSE [ok |-> FALSE, chain_id |-> [present |-> FALSE, value |-> 0]]
    ELSE [ok |-> TRUE, chain_id |-> [present |-> FALSE, value |-> 0]]

\* the response returned (ok = TRUE), or the exception raised (ok = FALSE)
build_siwa_response(r) ==
    IF Get(r, "valid", FALSE).present /\ r.valid
    THEN [ok |-> TRUE, response |-> ("status" :> "authenticated") @@ ResponseBase(r)]
    ELSE IF Get(r, "code", "").present /\ r.code = "NOT_REGISTERED"
    THEN IF ~ActionChainId(r).ok
         THEN [ok |-> FALSE, error |-> "ValueError"]
         ELSE [ok |-> TRUE,
               response |->
                 [status |-> "not_registered",
                  code |-> Get(r, "code", ""),
                  error |-> "Agent is not registered on the ERC-8004 Identity Registry.",
                  skill |-> SkillRef,
                  action |->
                    [type |-> "register",
                     message |-> "This address is not registered as an ERC-8004 agent. Install the SIWA SDK and register before signing in.",
                     skill |-> SkillRef,
                     steps |-> RegisterSteps,
                     registry_address |-> ActionRegistryAddress(r),
                     chain_id |-> ActionChainId(r).chain_id]]
                 @@ ResponseBase(r)]
    ELSE [ok |-> TRUE,
          response |->
            [status |-> "rejected",
             code |-> Get(r, "code", ""),
             error |-> Get(r, "error", ""),
             skill |-> SkillRef]
            @@ ResponseBase(r)]

\* the registries of the results handed to build_siwa_response
RegistryNamedChain == <<"e", "i", "p", "1", "5", "5", ":", "b", "a", "s", "e", ":">> \o RegistryContract
RegistryFourParts == <<"e", "i", "p", "1", "5", "5", ":", "1", ":">> \o RegistryContract \o <<":", "x">>
ResponseRegistries ==
    {RegistryGood, RegistryTwoParts, RegistryWrongNamespace, RegistryBadContract,
     RegistryNamedChain, RegistryFourParts, <<"e", "i", "p", "1", "5", "5", ":", " ", "5", " ">>, <<"e", "i", "p", "1", "5", "5">>, <<>>}

\* the fields verify_siwa has parsed when it builds a result
ResultFields ==
    {[NoFields EXCEPT !.address = AddrA, !.agent_id = a, !.agent_registry = reg, !.chain_id = ch] :
        a \in {MaxAgentId}, reg \in ResponseRegistries, ch \in {0, 1}}

\* the codes fail() is called with, each with an error text
FailCodes ==
    {"INVALID_SIGNATURE", "DOMAIN_MISMATCH", "INVALID_NONCE", "MESSAGE_EXPIRED",
     "MESSAGE_NOT_YET_VALID", "INVALID_REGISTRY_FORMAT", "NOT_REGISTERED", "NOT_OWNER"}

\* verification results: the successes and failures verify_siwa builds, the
\* result of its outer except clause, and results with keys left out
\* (SIWAVerificationResult is declared total=False)
ResponseResults ==
    {[valid |-> TRUE, address |-> f.address, agent_id |-> f.agent_id,
      agent_registry |-> f.agent_registry, chain_id |-> f.chain_id,
      verified |-> "onchain", signer_type |-> st] :
        f \in ResultFields, st \in {"sca", "eoa"}}
    \cup {fail(f, code, "failed") : f \in ResultFields, code \in FailCodes}
    \cup {BoundaryHandler(Exception("ValueError", "Invalid SIWA message")).result}
    \cup {[valid |-> FALSE], [valid |-> FALSE, code |-> "NOT_REGISTERED"],
          [valid |-> FALSE, code |-> "NOT_REGISTERED", agent_registry |-> RegistryNamedChain]}

\* no call of verify_siwa under way
PipelineIdle ==
    /\ pc = [c \in Calls |-> "idle"]
    /\ req = [c \in Calls |-> NoRequest]
    /\ fields = [c \in Calls |-> NoFields]
    /\ loc = [c \in Calls |-> NoLocals]
    /\ result = [c \in Calls |-> NoResult]
    /\ outcome = [c \in Calls |-> "pending"]
    /\ caught = [c \in Calls |-> NoException]
    /\ log = [c \in Calls |-> <<>>]
    /\ stages = [c \in Calls |-> <<>>]
    /\ store = Nonces

ResponseInit ==
    /\ PipelineIdle
    /\ codec = NoCodec
    /\ signing = NoSigning
    /\ \E r \in ResponseResults : shaper = [pc |-> "result", result |-> r, out |-> [ok |-> FALSE]]

\* response = build_siwa_response(result)
BuildResponse ==
    /\ shaper.pc = "result"
    /\ shaper' = [shaper EXCEPT !.pc = "done", !.out = build_siwa_response(shaper.result)]
    /\ UNCHANGED <<pipeline, codec, signing>>

ResponseNext == BuildResponse

SpecResponse == ResponseInit /\ [][ResponseNext]_vars

\* ---- C15 ----
\* C15: build_siwa_response returns a response for every verification
\* result, and its status is authenticated, not_registered or rejected.
C15_ResponseTotal ==
    shaper.pc = "done" =>
        /\ shaper.out.ok
        /\ shaper.out.response.status \in {"authenticated", "not_registered", "rejected"}

\* ---- C16 ----
IsValid(r) == "valid" \in DOMAIN r /\ r.valid
CodeOf(r) == IF "code" \in DOMAIN r THEN r.code ELSE ""

\* C16: build_siwa_response returns status authenticated exactly for a valid
\* result, not_registered exactly for an invalid result with code
\* NOT_REGISTERED, then with a register action of 6 steps, and rejected,
\* with the result's code and error, for every other invalid result.
C16_StatusMapping ==
    shaper.pc = "done" =>
        LET r == shaper.result
            o == shaper.out
        IN  /\ IsValid(r) <=> (o.ok /\ o.response.status = "authenticated")
            /\ (~IsValid(r) /\ CodeOf(r) = "NOT_REGISTERED")
                  <=> (o.ok /\ o.response.status = "not_registered")
            /\ (~IsValid(r) /\ CodeOf(r) # "NOT_REGISTERED")
                  <=> (o.ok /\ o.response.status = "rejected")
            /\ (o.ok /\ o.response.status = "not_registered") =>
                  /\ "action" \in DOMAIN o.response
                  /\ o.response.action.type = "register"
                  /\ Len(o.response.action.steps) = 6
                  /\ \A i \in 1..Len(o.response.action.steps) : o.response.action.steps[i] # ""
            /\ (o.ok /\ o.response.status = "rejected") =>
                  /\ o.response.code = Get(r, "code", "")
                  /\ o.response.error = Get(r, "error", "")

\* ---- C17 ----
BaseKeys == {"address", "agent_id", "agent_registry", "chain_id", "verified", "signer_type"}

\* C17: every response has the keys address, agent_id, agent_registry,
\* chain_id, verified and signer_type.
C17_BaseKeys ==
    (shaper.pc = "done" /\ shaper.out.ok) => BaseKeys \subseteq DOMAIN shaper.out.response

\* ---- C18 ----
RegistryOf(r) == IF "agent_registry" \in DOMAIN r THEN r.agent_registry ELSE <<>>
ChainIdSet(r) == "chain_id" \in DOMAIN r /\ r.chain_id # 0

\* C18: in a not_registered response action.registry_address is the third
\* colon-separated part of agent_registry when it has exactly three, and
\* absent otherwise; action.chain_id is the result's chain_id when set,
\* otherwise the second part as an integer, absent when there is none.
C18_ActionDerivation ==
    (shaper.pc = "done" /\ shaper.out.ok /\ shaper.out.response.status = "not_registered") =>
        LET r == shaper.result
            a == shaper.out.response.action
            parts == Split(RegistryOf(r), ":")
        IN  /\ IF Colons(RegistryOf(r)) = 2
               THEN a.registry_address.present /\ a.registry_address.value = parts[3]
               ELSE ~a.registry_address.present
            /\ IF ChainIdSet(r)
               THEN a.chain_id.present /\ a.chain_id.value = r.chain_id
               ELSE IF Colons(RegistryOf(r)) >= 1
               THEN a.chain_id.present /\ a.chain_id.value = ParseInt(parts[2]).val
               ELSE ~a.chain_id.present

\* a result with no chain_id set got the chain of its registry, and the
\* contract address, in its action
C18_Witness ==
    /\ shaper.pc = "done" /\ shaper.out.ok
    /\ shaper.out.response.status = "not_registered"
    /\ ~ChainIdSet(shaper.result)
    /\ shaper.out.response.action.chain_id = [present |-> TRUE, value |-> 1]
    /\ shaper.out.response.action.registry_address = Some(RegistryContract)

(***************************************************************************)
(* sign_siwa_message                                                       *)
(***************************************************************************)
\* the fields handed to sign_siwa_message, 'address' apart
SignFieldSets ==
    [domain : Domains,
     address : {<<>>},
     statement : {None, Some(<<"h", "i">>)},
     uri : {<<"u">>},
     version : {None},
     agent_id : {MaxAgentId},
     agent_registry : {RegistryGood},
     chain_id : {1},
     nonce : Nonces,
     issued_at : {Timestamp(0, <<"Z">>)},
     expiration_time : {None, Some(Timestamp(MidHour, <<"Z">>))},
     not_before : {None, Some(Timestamp(MidHour, <<"+", "0", "1", ":", "0", "0">>))},
     request_id : {None}]

\* fields.get("address"): left out, or an address in some spelling
SignAddressChoices ==
    {None} \cup {Some(a) : a \in {AddrA, Lower(AddrA), AddrB, Lower(AddrB)}}

\* the host calls sign_siwa_message(fields, signer) with the signer of one
\* of the accounts; signs = FALSE is a signer whose sign_message fails
SignInit ==
    /\ PipelineIdle
    /\ codec = NoCodec
    /\ shaper = NoShaper
    /\ \E f \in SignFieldSets, a \in SignAddressChoices, s \in Accounts, w \in BOOLEAN :
         signing = [NoSigning EXCEPT !.pc = "get_address", !.fields = f, !.address = a,
                                     !.signer = s, !.signs = w]

SignCalled(fn, arg) == [signing EXCEPT !.calls = Append(@, [fn |-> fn, arg |-> arg])]

\* signer_address = await signer.get_address()
SignGetAddress ==
    /\ signing.pc = "get_address"
    /\ signing' = [SignCalled("get_address", <<>>) EXCEPT
                      !.pc = "check", !.signer_address = signing.signer]
    /\ UNCHANGED <<pipeline, codec, shaper>>

\* SignCheckAddress comparing the two addresses letter for letter
SignCheckAddressCaseSensitive ==
    /\ signing.pc = "check"
    /\ IF Truthy(signing.address) /\ signing.signer_address # signing.address.value
       THEN signing' = [signing EXCEPT !.pc = "raised",
                                       !.out = [ok |-> FALSE, error |-> "ValueError",
                                                text |-> "Address mismatch"]]
       ELSE signing' = [signing EXCEPT !.pc = "build"]
    /\ UNCHANGED <<pipeline, codec, shaper>>

\* if fields.get("address") and signer_address.lower() != fields["address"].lower():
\*     raise ValueError("Address mismatch: ...")
SignCheckAddress ==
    /\ signing.pc = "check"
    /\ IF Truthy(signing.address)
          /\ Lower(signing.signer_address) # Lower(signing.address.value)
       THEN signing' = [signing EXCEPT !.pc = "raised",
                                       !.out = [ok |-> FALSE, error |-> "ValueError",
                                                text |-> "Address mismatch"]]
       ELSE signing' = [signing EXCEPT !.pc = "build"]
    /\ UNCHANGED <<pipeline, codec, shaper>>

\* SignBuildMessage keeping the address the caller wrote
SignBuildMessageCallerAddress ==
    /\ signing.pc = "build"
    /\ signing' = [signing EXCEPT
                      !.pc = "sign",
                      !.message = build_siwa_message(
                          [signing.fields EXCEPT !.address =
                              IF Truthy(signing.address) THEN signing.address.value
                              ELSE signing.signer_address])]
    /\ UNCHANGED <<pipeline, codec, shaper>>

\* resolved_fields = {**fields, "address": signer_address}
\* message = build_siwa_message(resolved_fields)
SignBuildMessage ==
    /\ signing.pc = "build"
    /\ signing' = [signing EXCEPT
                      !.pc = "sign",
                      !.message = build_siwa_message(
                          [signing.fields EXCEPT !.address = signing.signer_address])]
    /\ UNCHANGED <<pipeline, codec, shaper>>

\* signature = await signer.sign_message(message), and the return; an
\* error of the signer leaves sign_siwa_message as it is
SignSignMessage ==
    /\ signing.pc = "sign"
    /\ IF signing.signs
       THEN signing' = [SignCalled("sign_message", signing.message) EXCEPT
                           !.pc = "returned",
                           !.out = [ok |-> TRUE,
                                    message |-> signing.message,
                                    signature |-> Sign(signing.signer, signing.message),
                                    address |-> signing.signer_address]]
       ELSE signing' = [SignCalled("sign_message", signing.message) EXCEPT
                           !.pc = "raised",
                           !.out = [ok |-> FALSE, error |-> "SignerError",
                                    text |-> "signing failed"]]
    /\ UNCHANGED <<pipeline, codec, shaper>>

SignNext ==
    \/ SignGetAddress
    \/ SignCheckAddress
    \/ SignBuildMessage
    \/ SignSignMessage

SpecSign == SignInit /\ [][SignNext]_vars

\* ---- C19 ----
SignEnded == signing.pc \in {"returned", "raised"}
SignCalls(fn) == {i \in 1..Len(signing.calls) : signing.calls[i].fn = fn}
\* fields.address is there and names another account than the signer's
SignMismatch ==
    /\ signing.address.present
    /\ Lower(signing.address.value) # Lower(signing.signer)

C20_SignatureOverReturnedMessage ==
    /\ Cardinality(SignCalls("sign_message")) <= 1
    /\ \A i \in SignCalls("sign_message") : \E j \in SignCalls("get_address") : j < i
    /\ signing.pc = "returned" =>
          /\ Cardinality(SignCalls("sign_message")) = 1
          /\ \A i \in SignCalls("sign_message") : signing.calls[i].arg = signing.out.message
          /\ signing.out.message =
                build_siwa_message([signing.fields EXCEPT !.address = signing.out.address])
          /\ RecoverMessage(signing.out.message, signing.out.signature)
                = [ok |-> TRUE, address |-> signing.out.address]

\* a signature was returned for fields that named the address in lower case
C20_Witness ==
    /\ signing.pc = "returned"
    /\ signing.address = Some(Lower(signing.signer))
    /\ ~signing.out.signature.malformed
    /\ signing.out.signature.text = signing.out.message

\* the signer failed: sign_message was called once and no result returned
C20_NoRetry ==
    /\ signing.pc = "raised"
    /\ ~signing.signs
    /\ Cardinality(SignCalls("sign_message")) = 1

(***************************************************************************)
(* sign_siwa_message, then verify_siwa on what it returned                 *)
(***************************************************************************)
\* the host calls verify_siwa(result["message"], result["signature"],
\* expected_domain, ...) with the domain the fields were signed for
VerifySignedCall(c) ==
    /\ pc[c] = "idle"
    /\ signing.pc = "returned"
    /\ req' = [req EXCEPT ![c] = [message |-> signing.out.message,
                                  signature |-> signing.out.signature,
                                  expected_domain |-> signing.fields.domain,
                                  registry_address |-> None]]
    /\ Goto(c, "parse")
    /\ UNCHANGED <<fields, loc, log, stages, store, others>>

\* the statements of verify_siwa after the call
VerifySteps(c) ==
    \/ Parse(c)
    \/ RecoverSignature(c)
    \/ AddressMatch(c)
    \/ DomainBinding(c)
    \/ NonceValidate(c)
    \/ NonceAwait(c)
    \/ NonceTaskRun(c)
    \/ TimeWindow(c)
    \/ RegistryFormat(c)
    \/ Ownership(c)
    \/ SignerType(c)

SignVerifyNext ==
    \/ SignNext
    \/ \E c \in MainCalls : VerifySignedCall(c)
    \/ \E c \in MainCalls : VerifySteps(c)

SpecSignVerify == SignInit /\ [][SignVerifyNext]_vars

\* ---- C21 ----
\* a collaborator did not behave as C21 supposes: the validator answered
\* false or failed, the clock stood outside the window the message names,
\* the resolver failed or named another owner, the code lookup failed
NotAsSupposed(c) ==
    \/ loc[c].nonce_value = "False"
    \/ caught[c].kind = "RuntimeError"
    \/ loc[c].now >= 0 /\ (ExpiredAt(fields[c], loc[c].now) \/ NotYetValidAt(fields[c], loc[c].now))
    \/ Ran(c, "ownership") /\ loc[c].owner # signing.signer
    \/ loc[c].code = "error"

\* C21: a message and signature from sign_siwa_message, verified for the
\* message's domain with a validator answering true, the clock inside the
\* time window and the signer resolved as owner, give valid=true,
\* verified="onchain", the signer's address, and signer_type "sca" with
\* deployed code and "eoa" without.
C21_SignThenVerify ==
    \A c \in Calls :
        (Done(c) /\ signing.pc = "returned" /\ req[c].message = signing.out.message) =>
            \/ NotAsSupposed(c)
            \/ /\ Succeeded(c)
               /\ result[c].verified = "onchain"
               /\ result[c].address = signing.signer
               /\ result[c].signer_type = IF loc[c].code = "code" THEN "sca" ELSE "eoa"

(***************************************************************************)
(* parse_siwa_message on messages as they arrive                           *)
(***************************************************************************)
\* first lines: the header of a domain, and lines that are not one
HeaderChoices ==
    {DomainA \o HeaderSuffix,
     DomainA \o HeaderSuffix \o HeaderSuffix,
     <<>>,
     HeaderSuffix,
     <<"a", ".", "i", "o", " ", "w", "a", "n", "t", "s", " ", "y", "o", "u", " ", "t", "o", " ", "s", "i", "g", "n", " ", "i", "n", " ", "w", "i", "t", "h", " ", "y", "o", "u", "r", " ", "A", "g", "e", "n", "t", " ", "a", "c", "c", "o", "u", "n", "t">>,
     DomainA \o HeaderSuffix \o <<" ">>,
     <<"h", "e", "l", "l", "o">>}

\* second lines: an address, and lines that are not one
AddressLineChoices ==
    {AddrA,
     <<"0", "x">> \o Rep(<<"z", "z">>, 20),
     <<>>,
     <<"0", "x", "1", "2", "3", "4">>,
     <<"1", "x">> \o Rep(<<"A", "1">>, 20),
     AddrA \o <<"0">>}

\* the lines after the address
StandardFieldLines ==
    <<FieldLine(KeyURI, <<"u", ":", " ", "v">>), FieldLine(KeyVersion, <<"1">>), FieldLine(KeyAgentId, <<"7">>),
      FieldLine(KeyAgentRegistry, RegistryGood), FieldLine(KeyChainId, <<"1">>),
      FieldLine(KeyNonce, Nonce1), FieldLine(KeyIssuedAt, Timestamp(0, <<"Z">>))>>
TailChoices ==
    {<<>>,
     << <<>>, <<>> >> \o StandardFieldLines,
     << <<>>, <<>> >> \o StandardFieldLines \o <<FieldLine(KeyRequestId, <<"r">>), <<"F", "o", "o", ":", " ", "b", "a", "r">>, <<"g", "a", "r", "b", "a", "g", "e">>>>,
     << <<>>, <<>>, FieldLine(KeyURI, <<"u">>) >>,
     << <<>>, <<>>, FieldLine(KeyNonce, Nonce1), <<"N", "o", "n", "c", "e">>, FieldLine(KeyNonce, Nonce2) >>,
     << <<>>, <<"h", "i">>, <<>> >> \o StandardFieldLines,
     << <<>>, <<"h", "i">>, FieldLine(KeyURI, <<"u">>), FieldLine(KeyNotBefore, Timestamp(0, <<"Z">>)) >>,
     << <<>>, <<"h", "i">> >>,
     StandardFieldLines,
     << <<>>, <<>>, FieldLine(KeyURI, <<"u">>), FieldLine(KeyAgentId, <<"-", "5">>) >>,
     << <<>>, <<>>, FieldLine(KeyURI, <<"u">>), FieldLine(KeyAgentId, <<"+", "5">>) >>,
     << <<>>, <<>>, FieldLine(KeyURI, <<"u">>), FieldLine(KeyAgentId, <<"a", "b", "c">>) >>,
     << <<>>, <<>>, FieldLine(KeyURI, <<"u">>), FieldLine(KeyChainId, <<>>) >>}

\* messages of one line, and of a first line, a second line and a tail
ParseMessages ==
    {h : h \in HeaderChoices}
    \cup {Join(<<h, a>> \o t, NL) : h \in HeaderChoices, a \in AddressLineChoices, t \in TailChoices}

ParseInit ==
    /\ PipelineIdle
    /\ shaper = NoShaper
    /\ signing = NoSigning
    /\ \E m \in ParseMessages :
         codec = [pc |-> "built", fields |-> NoFields, message |-> m, parsed |-> [ok |-> FALSE]]

ParseNext == CodecParse

SpecParse == ParseInit /\ [][ParseNext]_vars

\* ---- C22 ----
MessageLines == Split(codec.message, NL)
HeaderMatches ==
    /\ EndsWith(MessageLines[1], HeaderSuffix)
    /\ Len(MessageLines[1]) > Len(HeaderSuffix)
SecondLineBad ==
    \/ Len(MessageLines) < 2
    \/ MessageLines[2] = <<>>
    \/ ~StartsWith(MessageLines[2], <<"0", "x">>)
    \/ Len(MessageLines[2]) # 42

\* C22: parse_siwa_message fails with ValueError, and with no other error,
\* for every message whose second line is missing, empty, does not start
\* with 0x or is not 42 characters long.
C22_AddressGuard ==
    (codec.pc = "parsed" /\ SecondLineBad) =>
        (~codec.parsed.ok /\ codec.parsed.error = "ValueError")

\* ---- C23 ----
\* the positions at which the fixed suffix occurs in the first line
SuffixAt ==
    {i \in 1..(Len(MessageLines[1]) - Len(HeaderSuffix) + 1) :
        SubSeq(MessageLines[1], i, i + Len(HeaderSuffix) - 1) = HeaderSuffix}
LastSuffixAt == CHOOSE i \in SuffixAt : \A j \in SuffixAt : j <= i

\* C23: parse_siwa_message fails with ValueError for every message whose
\* first line is not a non-empty domain followed by exactly the fixed
\* suffix; when it is, the parsed domain is what stands before the last
\* occurrence of the suffix.
C23_DomainLineGuard ==
    codec.pc = "parsed" =>
        /\ ~HeaderMatches => (~codec.parsed.ok /\ codec.parsed.error = "ValueError")
        /\ codec.parsed.ok =>
              codec.parsed.fields.domain = SubSeq(MessageLines[1], 1, LastSuffixAt - 1)

\* a first line holding the suffix twice was parsed, the first occurrence
\* being part of the domain
C23_Witness ==
    /\ codec.pc = "parsed" /\ codec.parsed.ok
    /\ Cardinality(SuffixAt) = 2
    /\ codec.parsed.fields.domain = DomainA \o HeaderSuffix

\* a first line with a character after the suffix was rejected
C23_Rejected ==
    /\ codec.pc = "parsed" /\ ~codec.parsed.ok
    /\ SuffixAt # {} /\ ~HeaderMatches
    /\ codec.parsed.error = "ValueError"

\* ---- C26 ----
\* C26: every field set parse_siwa_message returns has agent_id >= 0.
C26_AgentIdNonNegative ==
    (codec.pc = "parsed" /\ codec.parsed.ok) => codec.parsed.fields.agent_id >= 0

\* ---- C29 ----
\* the index of the first line after the statement block
FieldLinesFrom ==
    IF Len(MessageLines) >= 3 /\ MessageLines[3] = <<>>
    THEN LET ends == {j \in 4..Len(MessageLines) :
                         MessageLines[j] = <<>> \/ StartsWith(MessageLines[j], UriPrefix)}
             j == CHOOSE e \in ends : \A o \in ends : e <= o
         IN  IF ends = {} THEN Len(MessageLines) + 1
             ELSE IF MessageLines[j] = <<>> THEN j + 1 ELSE j
    ELSE 3
\* the value the field lines give to key: that of the last line "key: value"
LinesOf(key) ==
    {i \in FieldLinesFrom..Len(MessageLines) : StartsWith(MessageLines[i], key \o FieldSep)}
ValueOf(key) ==
    LET i == CHOOSE l \in LinesOf(key) : \A o \in LinesOf(key) : o <= l
    IN  SubSeq(MessageLines[i], Len(key) + Len(FieldSep) + 1, Len(MessageLines[i]))
TextOr(key, default) == IF LinesOf(key) = {} THEN default ELSE ValueOf(key)
OptionalOf(key) == IF LinesOf(key) = {} THEN None ELSE Some(ValueOf(key))
NumberOk(key) == LinesOf(key) = {} \/ ParseInt(ValueOf(key)).ok
NumberOr(key, default) == IF LinesOf(key) = {} THEN default ELSE ParseInt(ValueOf(key)).val

\* C29: after the statement block each line "key: value" is split at its
\* first ": ", lines with another key or without ": " are ignored, and a
\* key with no line takes its default (version "1", agent_id and chain_id
\* 0, the optional fields absent) without making the parse fail.
C29_FieldLines ==
    (codec.pc = "parsed" /\ HeaderMatches /\ ~SecondLineBad
       /\ NumberOk(KeyAgentId) /\ NumberOk(KeyChainId)) =>
        /\ codec.parsed.ok
        /\ codec.parsed.fields.uri = TextOr(KeyURI, <<>>)
        /\ codec.parsed.fields.version = TextOr(KeyVersion, <<"1">>)
        /\ codec.parsed.fields.agent_id = NumberOr(KeyAgentId, 0)
        /\ codec.parsed.fields.agent_registry = TextOr(KeyAgentRegistry, <<>>)
        /\ codec.parsed.fields.chain_id = NumberOr(KeyChainId, 0)
        /\ codec.parsed.fields.nonce = TextOr(KeyNonce, <<>>)
        /\ codec.parsed.fields.issued_at = TextOr(KeyIssuedAt, <<>>)
        /\ codec.parsed.fields.expiration_time = OptionalOf(KeyExpirationTime)
        /\ codec.parsed.fields.not_before = OptionalOf(KeyNotBefore)
        /\ codec.parsed.fields.request_id = OptionalOf(KeyRequestId)

\* a message with a value holding ": ", a line of an unknown key, a line
\* without ": " and no Expiration Time line was parsed
C29_Witness ==
    /\ codec.pc = "parsed" /\ codec.parsed.ok
    /\ \E i \in 1..Len(MessageLines) : MessageLines[i] = <<"g", "a", "r", "b", "a", "g", "e">>
    /\ \E i \in 1..Len(MessageLines) : MessageLines[i] = <<"F", "o", "o", ":", " ", "b", "a", "r">>
    /\ codec.parsed.fields.uri = <<"u", ":", " ", "v">>
    /\ codec.parsed.fields.expiration_time = None
    /\ codec.parsed.fields.request_id = Some(<<"r">>)

\* a message with only a URI line was parsed, every other field a default
C29_Defaults ==
    /\ codec.pc = "parsed" /\ codec.parsed.ok
    /\ LinesOf(KeyVersion) = {} /\ LinesOf(KeyAgentId) = {}
    /\ codec.parsed.fields.version = <<"1">>
    /\ codec.parsed.fields.agent_id = 0

\* ---- C24 ----
\* the optional field lines a field set calls for, in the order of the wire
OptionalLines(f) ==
    (IF f.expiration_time.present /\ f.expiration_time.value # <<>>
     THEN <<<<"E", "x", "p", "i", "r", "a", "t", "i", "o", "n", " ", "T", "i", "m", "e", ":", " ">> \o f.expiration_time.value>> ELSE <<>>)
    \o (IF f.not_before.present /\ f.not_before.value # <<>>
        THEN <<<<"N", "o", "t", " ", "B", "e", "f", "o", "r", "e", ":", " ">> \o f.not_before.value>> ELSE <<>>)
    \o (IF f.request_id.present /\ f.request_id.value # <<>>
        THEN <<<<"R", "e", "q", "u", "e", "s", "t", " ", "I", "D", ":", " ">> \o f.request_id.value>> ELSE <<>>)
\* the number of lines the statement block takes
StatementHeight(f) ==
    IF f.statement.present /\ f.statement.value # <<>>
    THEN Len(Split(f.statement.value, NL)) ELSE 0

\* C24: the message is, joined by single newlines and with no newline at
\* its end: the domain header, the address, a blank line, the statement
\* when non-empty, a blank line, URI, Version ("1" when absent), Agent ID,
\* Agent Registry, Chain ID, Nonce, Issued At, then Expiration Time, Not
\* Before and Request ID, each when present and non-empty.
C24_WireFormat ==
    codec.pc \in {"built", "parsed"} =>
        LET f == codec.fields
            L == Split(codec.message, NL)
            s == StatementHeight(f)
            b == 4 + s
        IN  /\ Len(L) = b + 7 + Len(OptionalLines(f))
            /\ L[1] = f.domain \o <<" ", "w", "a", "n", "t", "s", " ", "y", "o", "u", " ", "t", "o", " ", "s", "i", "g", "n", " ", "i", "n", " ", "w", "i", "t", "h", " ", "y", "o", "u", "r", " ", "A", "g", "e", "n", "t", " ", "a", "c", "c", "o", "u", "n", "t", ":">>
            /\ L[2] = f.address
            /\ L[3] = <<>>
            /\ s > 0 => SubSeq(L, 4, 3 + s) = Split(f.statement.value, NL)
            /\ L[b] = <<>>
            /\ L[b + 1] = <<"U", "R", "I", ":", " ">> \o f.uri
            /\ L[b + 2] = <<"V", "e", "r", "s", "i", "o", "n", ":", " ">> \o (IF f.version.present THEN f.version.value ELSE <<"1">>)
            /\ L[b + 3] = <<"A", "g", "e", "n", "t", " ", "I", "D", ":", " ">> \o IntToStr(f.agent_id)
            /\ L[b + 4] = <<"A", "g", "e", "n", "t", " ", "R", "e", "g", "i", "s", "t", "r", "y", ":", " ">> \o f.agent_registry
            /\ L[b + 5] = <<"C", "h", "a", "i", "n", " ", "I", "D", ":", " ">> \o IntToStr(f.chain_id)
            /\ L[b + 6] = <<"N", "o", "n", "c", "e", ":", " ">> \o f.nonce
            /\ L[b + 7] = <<"I", "s", "s", "u", "e", "d", " ", "A", "t", ":", " ">> \o f.issued_at
            /\ SubSeq(L, b + 8, Len(L)) = OptionalLines(f)
            /\ codec.message[Len(codec.message)] # NL

\* a message without statement was built: two blank lines after the address
C24_Witness ==
    /\ codec.pc = "built"
    /\ ~codec.fields.statement.present
    /\ codec.fields.request_id.present
    /\ Split(codec.message, NL)[3] = <<>>
    /\ Split(codec.message, NL)[4] = <<>>
    /\ StartsWith(Split(codec.message, NL)[5], <<"U", "R", "I", ":", " ">>)

(***************************************************************************)
(* codes, collaborators and the registry override                          *)
(***************************************************************************)
\* the members of SIWAErrorCode that verify_siwa passes to fail() or sets
\* in its except clause
EmittedCodes ==
    {"INVALID_SIGNATURE", "DOMAIN_MISMATCH", "INVALID_NONCE", "MESSAGE_EXPIRED",
     "MESSAGE_NOT_YET_VALID", "INVALID_REGISTRY_FORMAT", "NOT_REGISTERED",
     "NOT_OWNER", "VERIFICATION_FAILED"}
\* the members of SIWAErrorCode no statement of verify_siwa mentions
ReservedCodes ==
    {"AGENT_NOT_ACTIVE", "MISSING_SERVICE", "MISSING_TRUST_MODEL",
     "LOW_REPUTATION", "CUSTOM_CHECK_FAILED"}

\* C25: the code of every valid=false result of verify_siwa is one of the
\* nine codes INVALID_SIGNATURE, DOMAIN_MISMATCH, INVALID_NONCE,
\* MESSAGE_EXPIRED, MESSAGE_NOT_YET_VALID, INVALID_REGISTRY_FORMAT,
\* NOT_REGISTERED, NOT_OWNER, VERIFICATION_FAILED, never a reserved code,
\* and a valid=true result has no code.
C25_ClosedCodes ==
    \A c \in Calls :
        Returned(c) =>
            /\ ~result[c].valid =>
                   /\ "code" \in DOMAIN result[c]
                   /\ result[c].code \in EmittedCodes
                   /\ result[c].code \notin ReservedCodes
            /\ result[c].valid => "code" \notin DOMAIN result[c]

\* a call rejected by the ownership comparison, the last of the codes
C25_Witness ==
    \E c \in Calls : Failed(c) /\ result[c].code = "NOT_OWNER"

\* a call that returned valid=true
C25_Success ==
    \E c \in Calls : Succeeded(c) /\ DOMAIN result[c] =
        {"valid", "address", "agent_id", "agent_registry", "chain_id", "verified",
         "signer_type"}

\* the external collaborators in the order verify_siwa uses them
CollaboratorOrder == <<"recover_message", "nonce_validator", "ownerOf", "get_code">>
CollaboratorRank(fn) == CHOOSE i \in 1..Len(CollaboratorOrder) : CollaboratorOrder[i] = fn
ChainCalled(c) == Called(c, "ownerOf") \/ Called(c, "get_code")
FirstSevenStages == {StageOrder[j] : j \in 1..7}

\* C27: within one call each collaborator (signature recovery, nonce
\* validator, ownerOf, code lookup) is invoked at most once and in that
\* order, each only after the one before it has completed; a request that
\* fails one of stages 1 to 7 gets no chain call; the code lookup is made
\* only after the ownership check passed.
C27_SequentialCalls ==
    \A c \in Calls :
        /\ \A i, j \in 1..Len(log[c]) :
               i < j => CollaboratorRank(log[c][i].fn) < CollaboratorRank(log[c][j].fn)
        /\ (Called(c, "ownerOf") /\ ~Done(c)) => loc[c].nonce_value # "none"
        /\ \A s \in FirstSevenStages :
               (Ran(c, s) /\ ~StagePasses(c, s)) => ~ChainCalled(c)
        /\ Called(c, "get_code") =>
               /\ Called(c, "ownerOf")
               /\ StagePasses(c, "ownership")

\* C30: when verify_siwa is given a registry_address, ownerOf is asked of
\* that address and never of the contract address in the message's
\* agent_registry; the message's address is asked only when none is given.
C30_OverrideAuthoritative ==
    \A c \in Calls :
        \A i \in 1..Len(log[c]) :
            log[c][i].fn = "ownerOf" =>
                IF req[c].registry_address.present
                THEN log[c][i].arg = req[c].registry_address.value
                ELSE log[c][i].arg = RegistryParts(fields[c])[3]

(***************************************************************************)
(* cancellation of a suspended verify_siwa call                            *)
(***************************************************************************)
\* the clause `except Exception` catching every exception, as it did when
\* asyncio.CancelledError derived from Exception
IsExceptionLegacy(e) == TRUE

\* whether the clause `except Exception` catches e: asyncio.CancelledError
\* derives from BaseException, the other exceptions met derive from Exception
IsException(e) == e.kind # "CancelledError"

\* an exception reaches the outer except clause of call c
Throw(c, e) ==
    IF IsException(e)
    THEN Raise(c, e)
    ELSE /\ pc' = [pc EXCEPT ![c] = "done"]
         /\ outcome' = [outcome EXCEPT ![c] = "raised"]
         /\ UNCHANGED <<result, caught>>

\* the host cancels the task of call c while it is suspended in
\* `nonce_ok = await nonce_result`: CancelledError is raised at the await;
\* the validator may or may not have consumed the nonce by then
Cancel(c) ==
    /\ pc[c] = "await_nonce"
    /\ loc' = [loc EXCEPT ![c].nonce_value = "cancelled"]
    /\ \E s \in {store, store \ {fields[c].nonce}} : store' = s
    /\ Throw(c, Exception("CancelledError", ""))
    /\ UNCHANGED <<req, fields, log, stages, others>>

CancelNext == Next \/ (\E c \in MainCalls : Cancel(c))
SpecCancel == Init /\ [][CancelNext]_vars

\* C28: a verify_siwa call cancelled while suspended on the asynchronous
\* nonce validator lets the cancellation propagate: it returns no result,
\* VERIFICATION_FAILED or other, and runs no later stage and no chain call.
C28_CancellationPropagates ==
    \A c \in Calls :
        loc[c].nonce_value = "cancelled" =>
            /\ Done(c)
            /\ outcome[c] = "raised"
            /\ result[c] = NoResult
            /\ caught[c] = NoException
            /\ stages[c][Len(stages[c])] = "nonce"
            /\ ~Ran(c, "time")
            /\ ~ChainCalled(c)

\* a call cancelled at the await of its validator
C28_Witness ==
    \E c \in Calls : loc[c].nonce_value = "cancelled" /\ Called(c, "nonce_validator")

(***************************************************************************)
(* the statement and the other fields                                      *)
(***************************************************************************)
\* what parsing is to give for an optional field of a field set: its value,
\* and nothing when the field is absent or empty (no line is written then)
KeptOptional(o) == IF Truthy(o) THEN o ELSE None

\* the fields other than the statement come back from a round trip as the
\* field set has them
OtherFieldsKept(f, p) ==
    /\ p.domain = f.domain
    /\ p.address = f.address
    /\ p.uri = f.uri
    /\ p.version = (IF Truthy(f.version) THEN f.version.value ELSE <<"1">>)
    /\ p.agent_id = f.agent_id
    /\ p.agent_registry = f.agent_registry
    /\ p.chain_id = f.chain_id
    /\ p.nonce = f.nonce
    /\ p.issued_at = f.issued_at
    /\ p.expiration_time = KeptOptional(f.expiration_time)
    /\ p.not_before = KeptOptional(f.not_before)
    /\ p.request_id = KeptOptional(f.request_id)

\* C33: whatever the statement text of a field set (blank lines and lines
\* looking like "URI: ...", "Nonce: ..." or "Expiration Time: ..." included),
\* parse_siwa_message(build_siwa_message(f)) gives every other field the
\* value the field set has, so two field sets differing only in their
\* statement parse to the same other fields, and an optional field absent
\* from the field set stays absent.
C33_StatementIsolated ==
    codec.pc = "parsed" =>
        /\ codec.parsed.ok
        /\ OtherFieldsKept(codec.fields, codec.parsed.fields)

(***************************************************************************)
(* the same request presented twice                                        *)
(***************************************************************************)
\* the field sets of the requests presented twice: signed by AddrA for the
\* expected domain, with or without time bounds, with a registry that
\* passes stage 7 or one that does not
ReplayFieldSets ==
    {f \in VerifyFieldSets :
        /\ f.domain = ExpectedDomain
        /\ f.address = AddrA
        /\ f.nonce = Nonce1
        /\ f.agent_registry \in {RegistryGood, RegistryTwoParts}
        /\ f.expiration_time \in {None, Some(Timestamp(MidHour, <<"Z">>))}
        /\ f.not_before \in {None, Some(Timestamp(MidHour, <<"Z">>))}}

\* the field sets of the requests presented concurrently
ConcurrentFieldSets ==
    {f \in ReplayFieldSets : f.agent_registry = RegistryGood /\ f.not_before = None}

FirstCall == "c1"
SecondCall == "c2"

\* the host calls verify_siwa on a message an agent signed
FirstPresentation(c, signed) ==
    /\ pc[c] = "idle"
    /\ \E f \in signed :
         req' = [req EXCEPT ![c] = [message |-> build_siwa_message(f),
                                    signature |-> Sign(AddrA, build_siwa_message(f)),
                                    expected_domain |-> ExpectedDomain,
                                    registry_address |-> None]]
    /\ Goto(c, "parse")
    /\ UNCHANGED <<fields, loc, log, stages, store, others>>

\* the host calls verify_siwa again, with the arguments of call d, once
\* call d is over
Replay(c, d) ==
    /\ pc[c] = "idle"
    /\ pc[d] = "done"
    /\ req' = [req EXCEPT ![c] = req[d]]
    /\ Goto(c, "parse")
    /\ UNCHANGED <<fields, loc, log, stages, store, others>>

\* the host calls verify_siwa with the arguments of call d while call d
\* may still be running
ConcurrentPresentation(c, d) ==
    /\ pc[c] = "idle"
    /\ pc[d] # "idle"
    /\ req' = [req EXCEPT ![c] = req[d]]
    /\ Goto(c, "parse")
    /\ UNCHANGED <<fields, loc, log, stages, store, others>>

ReplayNext ==
    \/ FirstPresentation(FirstCall, ReplayFieldSets)
    \/ Replay(SecondCall, FirstCall)
    \/ \E c \in Calls : VerifySteps(c)
SpecReplay == Init /\ [][ReplayNext]_vars

ConcurrentNext ==
    \/ FirstPresentation(FirstCall, ConcurrentFieldSets)
    \/ ConcurrentPresentation(SecondCall, FirstCall)
    \/ \E c \in Calls : VerifySteps(c)
SpecConcurrent == Init /\ [][ConcurrentNext]_vars

\* the failure codes of the stages after the nonce stage
LaterFailureCodes ==
    {"MESSAGE_EXPIRED", "MESSAGE_NOT_YET_VALID", "INVALID_REGISTRY_FORMAT",
     "NOT_REGISTERED", "NOT_OWNER"}
ValidatorCalls(c) == {i \in 1..Len(log[c]) : log[c][i].fn = "nonce_validator"}
FailedLater(c) == Failed(c) /\ result[c].code \in LaterFailureCodes

\* C31: a call ending in MESSAGE_EXPIRED, MESSAGE_NOT_YET_VALID,
\* INVALID_REGISTRY_FORMAT, NOT_REGISTERED or NOT_OWNER has called the nonce
\* validator exactly once, on the message's nonce; and with a consume-once
\* validator that answers, verifying the same message and signature again
\* after such a failure or after a success returns INVALID_NONCE.
C31_NonceConsumed ==
    /\ \A c \in Calls :
           FailedLater(c) =>
               /\ Cardinality(ValidatorCalls(c)) = 1
               /\ \A i \in ValidatorCalls(c) : log[c][i].arg = fields[c].nonce
    /\ (/\ Done(SecondCall)
        /\ FailedLater(FirstCall) \/ Succeeded(FirstCall)
        /\ caught[SecondCall].kind # "RuntimeError")
           => (Failed(SecondCall) /\ result[SecondCall].code = "INVALID_NONCE")

\* C32: of the concurrent calls on one message and signature, whatever the
\* interleaving, at most one returns valid=true and every other call
\* returns valid=false, given a validator accepting each nonce at most once.
C32_AtMostOneValid ==
    (\A c \in Calls : Done(c)) =>
        /\ Cardinality({c \in Calls : Succeeded(c)}) <= 1
        /\ \A c \in Calls : Returned(c)
====
